---- MODULE Spec2Model ----
(***************************************************************************)
(* Stock-Bot: a LINE webhook bot for Taiwan stock quotes, charts, news and *)
(* open chat.  This module models                                          *)
(*   - services/app.py : callback and handle_text_message, with the        *)
(*     process-wide map user_next_action            (specification Spec),  *)
(*   - app.py          : the earlier callback / handle_message             *)
(*                                              (specification SpecLegacy),*)
(*   - services/stock_price.py : get_stock_price  (specification SpecPrice)*)
(*   - the identifier resolver, chart generation, the open-chat branch and *)
(*     the news summary, each on its own (SpecResolver, SpecChart,         *)
(*     SpecChat, SpecNews),                                                *)
(*   - the AI gateway wrappers (SpecGateway), two chart generations at the *)
(*     same time (SpecPair), and services/app.py with two requests of one  *)
(*     user (SpecSameUser) and with requests one after the other           *)
(*     (SpecSequential).                                                   *)
(* Message texts are sequences of tokens: a token is a whitespace          *)
(* character or a run of non-whitespace characters, so that str.strip()    *)
(* is computed and not assumed.                                            *)
(***************************************************************************)
EXTENDS Naturals, Sequences, FiniteSets, TLC

VARIABLES
    \* ---- services/app.py ----
    GEMINI_INITIALIZED,   \* module constant fixed at start-up
    user_next_action,     \* user id -> pending action, None when no entry
    pc,                   \* position of each request thread
    signature,            \* whether the X-Line-Signature of the request verifies
    user_id,              \* event.source.user_id of the request
    text,                 \* event.message.text as delivered
    user_message,         \* local user_message = text.strip()
    current_action,       \* local current_action
    reply_objects,        \* local reply_objects
    calls,                \* per request: number of calls made to each third party
    svc_arg,              \* per request: argument handed to the service that was called
    sent,                 \* per request: message batches the reply API accepted
    response,             \* HTTP response of callback
    \* ---- app.py (earlier bot) ----
    lpc,                  \* position of the request thread
    lsignature,           \* whether the X-Line-Signature of the request verifies
    ltext,                \* event.message.text
    lids,                 \* stock_ids
    lreply,               \* the message handed to the next reply call
    lcalls,               \* number of calls made to each third party
    lsent,                \* messages the reply API accepted
    lresponse,            \* HTTP response of callback
    \* ---- services/stock_price.py ----
    ppc, stock_id, upstream, exc, http_requests, result,
    \* ---- the stock identifier resolver (both implementations) ----
    rpc,                  \* position in the function
    rimpl,                \* which implementation runs
    rtext,                \* user_input
    rkey,                 \* whether an AI key is configured
    rreply,               \* what the model call did
    rai_calls,            \* number of generate_content calls
    rresult,              \* the value returned
    \* ---- chart generation (both implementations) ----
    gpc,                  \* position in the function
    gimpl,                \* which implementation runs
    gcode,                \* stock_id
    ghist,                \* the history the market-data library holds
    gcreds,               \* the image-hosting settings that are configured
    gframe,               \* data_df / df
    gname,                \* stock_name
    gdisk,                \* names of the files on disk
    gtemp,                \* name of the file this call created, None before
    gcount,               \* number of times each step was attempted
    gresult,              \* the value returned, or that an exception left
    \* ---- services/app.py, the open-chat branch ----
    kpc,                  \* position in the branch
    kmessage,             \* user_message
    koutcome,             \* what the AI call did
    kgemini,              \* local gemini_reply as read from the response
    kreply,               \* the reply message chosen
    kcalls,               \* number of generate_content calls
    \* ---- services/news_summary.py ----
    npc,                  \* position in the function
    nquery,               \* user_query
    nsearch,              \* what the search does
    nurl,                 \* news_url
    ncount,               \* number of searches, downloads, probes, AI calls
    nresult,              \* the text returned
    \* ---- the AI gateway wrappers ----
    wpc,                  \* position in the wrapper
    wimpl,                \* which wrapper runs
    wenv,                 \* what the call meets
    wbound,               \* whether the local name response is bound
    wresult,              \* the value returned, or the exception that left
    \* ---- two chart generations at the same time ----
    qimpl,                \* which implementation both run
    qcode,                \* stock_id of each invocation
    qpc,                  \* position of each invocation
    qfile,                \* the file name each invocation uses
    qdisk,                \* the files on disk
    qlog,                 \* what each invocation did to which file
    qresult,              \* the value each invocation returned
    \* ---- services/app.py: what each request was given and did ----
    pending0,             \* the map before the requests
    hmsg,                 \* the text delivered to each request thread
    hbranch,              \* the branch each request took
    last                  \* per user: the message last taken up

botVars    == <<GEMINI_INITIALIZED, user_next_action, pc, signature, user_id, text,
                user_message, current_action, reply_objects, calls, svc_arg, sent,
                response>>
legacyVars == <<lpc, lsignature, ltext, lids, lreply, lcalls, lsent, lresponse>>
priceVars  == <<ppc, stock_id, upstream, exc, http_requests, result>>
resolverVars == <<rpc, rimpl, rtext, rkey, rreply, rai_calls, rresult>>
chartVars  == <<gpc, gimpl, gcode, ghist, gcreds, gframe, gname, gdisk, gtemp, gcount, gresult>>
chatVars   == <<kpc, kmessage, koutcome, kgemini, kreply, kcalls>>
newsVars   == <<npc, nquery, nsearch, nurl, ncount, nresult>>
gatewayVars == <<wpc, wimpl, wenv, wbound, wresult>>
pairVars   == <<qimpl, qcode, qpc, qfile, qdisk, qlog, qresult>>
recordVars == <<pending0, hmsg, hbranch, last>>
lateVars   == <<gatewayVars, pairVars, recordVars>>
otherVars  == <<resolverVars, chartVars, chatVars, newsVars, lateVars>>
vars       == <<botVars, legacyVars, priceVars, otherVars>>

-----------------------------------------------------------------------------
(* Bounds *)
NumUsers == 2

-----------------------------------------------------------------------------
(* Texts *)
None == "None"

SP == " "
Whitespace == {SP}

\* The three rich-menu texts, each one run of non-whitespace characters.
MenuPrice == <<"MENU_PRICE">>     \* "我想看股價"
MenuChart == <<"MENU_CHART">>     \* "我想看走勢圖"
MenuNews  == <<"MENU_NEWS">>      \* "我想知道最近的股市時事"
MenuTexts == {MenuPrice, MenuChart, MenuNews}

RECURSIVE lstrip(_)
lstrip(s) == IF s # <<>> /\ Head(s) \in Whitespace THEN lstrip(Tail(s)) ELSE s

RECURSIVE rstrip(_)
rstrip(s) == IF s # <<>> /\ s[Len(s)] \in Whitespace
             THEN rstrip(SubSeq(s, 1, Len(s) - 1)) ELSE s

strip(s) == rstrip(lstrip(s))

\* Message texts a user can send: the menu texts, a free text, and texts with
\* whitespace before or after.
FreeText == <<"2330">>
Texts == MenuTexts \cup {FreeText, <<SP>> \o MenuChart \o <<SP>>}

-----------------------------------------------------------------------------
(* services/app.py: state *)
Users    == 1..NumUsers
Handlers == {"t1", "t2"}          \* request threads of the hosting process

STATE_WAITING_STOCK_ID_FOR_PRICE == "WAITING_STOCK_ID_FOR_PRICE"
STATE_WAITING_STOCK_ID_FOR_CHART == "WAITING_STOCK_ID_FOR_CHART"
STATE_WAITING_KEYWORD_FOR_NEWS   == "WAITING_KEYWORD_FOR_NEWS"
WaitingStates == {STATE_WAITING_STOCK_ID_FOR_PRICE,
                  STATE_WAITING_STOCK_ID_FOR_CHART,
                  STATE_WAITING_KEYWORD_FOR_NEWS}

NoCalls == [price |-> 0, chart |-> 0, news |-> 0, ai |-> 0, reply |-> 0]

\* Reply messages (V3TextMessage / ImageSendMessage), named by their fixed text.
TextMsg(t)      == [type |-> "text", body |-> t, arg |-> <<>>]
TextMsgOn(t, a) == [type |-> "text", body |-> t, arg |-> a]
ImageMsg(a)     == [type |-> "image", body |-> "CHART_URL", arg |-> a]

PromptPrice    == TextMsg("PROMPT_STOCK_ID_FOR_PRICE")
PromptChart    == TextMsg("PROMPT_STOCK_ID_FOR_CHART")
PromptNews     == TextMsg("PROMPT_KEYWORD_FOR_NEWS")
ChartFailed(a) == TextMsgOn("CANNOT_GENERATE_CHART", a)
PriceInfo(a)   == TextMsgOn("PRICE_INFO", a)
NewsSummary(a) == TextMsgOn("NEWS_SUMMARY", a)
ChatText       == TextMsg("GEMINI_REPLY")
ChatBlocked    == TextMsg("CANNOT_REPLY_SENSITIVE")
ChatEmpty      == TextMsg("CANNOT_PROCESS_REQUEST")
ChatError      == TextMsg("AI_CHAT_TEMPORARY_PROBLEM")
ChatNotReady   == TextMsg("AI_CHAT_NOT_READY")
GenericError   == TextMsg("SYSTEM_PROBLEM_TRY_LATER")

\* LINE_SDK_INITIALIZED is TRUE in every running process: the decorator of line
\* 106 needs webhook_handler, which exists only when the SDK was initialised.
BotInitWith(m) ==
    /\ GEMINI_INITIALIZED \in BOOLEAN
    /\ user_next_action = m
    /\ pc = [h \in Handlers |-> "idle"]
    /\ signature = [h \in Handlers |-> None]
    /\ user_id = [h \in Handlers |-> 0]
    /\ text = [h \in Handlers |-> <<>>]
    /\ user_message = [h \in Handlers |-> <<>>]
    /\ current_action = [h \in Handlers |-> None]
    /\ reply_objects = [h \in Handlers |-> <<>>]
    /\ calls = [h \in Handlers |-> NoCalls]
    /\ svc_arg = [h \in Handlers |-> <<>>]
    /\ sent = [h \in Handlers |-> <<>>]
    /\ response = [h \in Handlers |-> None]

\* Line 78: user_next_action = {}.
BotInit == BotInitWith([u \in Users |-> None])

-----------------------------------------------------------------------------
(* services/app.py: callback *)

InFlight(h) == pc[h] # "idle"

\* The platform delivers a user's events one after the other: a request for
\* user u is taken up only when no request of u is being handled.
OneRequestPerUser(h, u) == \A g \in Handlers \ {h} : ~(InFlight(g) /\ user_id[g] = u)

\* webhook_handler.handle(body, signature) raises InvalidSignatureError, before
\* it parses any event, exactly when the signature does not verify.
SignatureVerifies_Unchecked(sig) == TRUE
SignatureVerifies(sig) == sig = "valid"

\* callback: the status Flask answers with, from what handle() raised.
CallbackResponse(raised) ==
    IF raised = "InvalidSignatureError" THEN "400"
    ELSE IF raised # None THEN "500"
    ELSE "OK"

\* A request whose signature does not verify: abort(400).
CallbackRejected(h) ==
    /\ pc[h] = "idle"
    /\ \E sig \in {"valid", "invalid"} :
         /\ ~SignatureVerifies(sig)
         /\ signature' = [signature EXCEPT ![h] = sig]
         /\ response' = [response EXCEPT ![h] = CallbackResponse("InvalidSignatureError")]
    /\ pc' = [pc EXCEPT ![h] = "responded"]
    /\ UNCHANGED <<GEMINI_INITIALIZED, user_next_action, user_id, text,
                   user_message, current_action, reply_objects, calls, svc_arg, sent>>

\* A request that passes verification: handle_text_message is entered with the
\* event; lines 112-118 read the user id and strip the text.
Dispatch(h, u, t, sig) ==
    /\ pc[h] = "idle"
    /\ SignatureVerifies(sig)
    /\ signature' = [signature EXCEPT ![h] = sig]
    /\ pc' = [pc EXCEPT ![h] = "pop"]
    /\ user_id' = [user_id EXCEPT ![h] = u]
    /\ text' = [text EXCEPT ![h] = t]
    /\ user_message' = [user_message EXCEPT ![h] = strip(t)]
    /\ UNCHANGED <<GEMINI_INITIALIZED, user_next_action, current_action,
                   reply_objects, calls, svc_arg, sent, response>>

CallbackAccepted(h) ==
    \E u \in Users, t \in Texts, sig \in {"valid", "invalid"} :
        /\ OneRequestPerUser(h, u)
        /\ Dispatch(h, u, t, sig)

-----------------------------------------------------------------------------
(* services/app.py: handle_text_message *)

\* user_next_action.pop(user_id, None): the map after the pop.
PopMap_NoClear(m, u) == m
PopMap_ClearAll(m, u) == [v \in DOMAIN m |-> None]
PopMap(m, u) == [m EXCEPT ![u] = None]

Pop(h) ==
    /\ pc[h] = "pop"
    /\ current_action' = [current_action EXCEPT ![h] = user_next_action[user_id[h]]]
    /\ user_next_action' = PopMap(user_next_action, user_id[h])
    /\ pc' = [pc EXCEPT ![h] = "branch"]
    /\ UNCHANGED <<GEMINI_INITIALIZED, signature, user_id, text, user_message,
                   reply_objects, calls, svc_arg, sent, response>>

\* The if / elif chain of lines 123-158: which branch a message takes.
BranchOf_MenuFirst(cur, msg) ==
    IF msg = MenuPrice THEN "menu_price"
    ELSE IF msg = MenuChart THEN "menu_chart"
    ELSE IF msg = MenuNews THEN "menu_news"
    ELSE IF cur = STATE_WAITING_STOCK_ID_FOR_PRICE THEN "price"
    ELSE IF cur = STATE_WAITING_STOCK_ID_FOR_CHART THEN "chart"
    ELSE IF cur = STATE_WAITING_KEYWORD_FOR_NEWS THEN "news"
    ELSE "chat"
BranchOf(cur, msg) ==
    IF cur = STATE_WAITING_STOCK_ID_FOR_PRICE THEN "price"
    ELSE IF cur = STATE_WAITING_STOCK_ID_FOR_CHART THEN "chart"
    ELSE IF cur = STATE_WAITING_KEYWORD_FOR_NEWS THEN "news"
    ELSE IF msg = MenuPrice THEN "menu_price"
    ELSE IF msg = MenuChart THEN "menu_chart"
    ELSE IF msg = MenuNews THEN "menu_news"
    ELSE "chat"

Bump(c, k) == [c EXCEPT ![k] = @ + 1]

\* Common frame of a branch step of thread h.
BranchFrame == UNCHANGED <<GEMINI_INITIALIZED, signature, user_id, text, user_message,
                           current_action, sent, response>>

\* A branch that ran to its end with reply_objects = objs.
BranchDone(h, objs) ==
    /\ reply_objects' = [reply_objects EXCEPT ![h] = objs]
    /\ pc' = [pc EXCEPT ![h] = "send"]

\* A branch whose service call raised: control goes to the handler of line 191.
BranchRaised(h) ==
    /\ reply_objects' = reply_objects
    /\ pc' = [pc EXCEPT ![h] = "except"]

\* Lines 123-126: price_info = get_stock_price(user_message).
BranchPrice(h) ==
    /\ pc[h] = "branch"
    /\ BranchOf(current_action[h], user_message[h]) = "price"
    /\ calls' = [calls EXCEPT ![h] = Bump(@, "price")]
    /\ svc_arg' = [svc_arg EXCEPT ![h] = <<user_message[h]>>]
    /\ \/ BranchDone(h, <<PriceInfo(user_message[h])>>)
       \/ BranchRaised(h)
    /\ UNCHANGED <<user_next_action>>
    /\ BranchFrame

\* Lines 128-137: chart_url = generate_stock_chart_url(user_message).
BranchChart(h) ==
    /\ pc[h] = "branch"
    /\ BranchOf(current_action[h], user_message[h]) = "chart"
    /\ calls' = [calls EXCEPT ![h] = Bump(@, "chart")]
    /\ svc_arg' = [svc_arg EXCEPT ![h] = <<user_message[h]>>]
    /\ \/ BranchDone(h, <<ImageMsg(user_message[h])>>)       \* a URL
       \/ BranchDone(h, <<ChartFailed(user_message[h])>>)    \* None
       \/ BranchRaised(h)
    /\ UNCHANGED <<user_next_action>>
    /\ BranchFrame

\* Lines 139-142: news_summary_text = get_news_summary(user_message).
BranchNews(h) ==
    /\ pc[h] = "branch"
    /\ BranchOf(current_action[h], user_message[h]) = "news"
    /\ calls' = [calls EXCEPT ![h] = Bump(@, "news")]
    /\ svc_arg' = [svc_arg EXCEPT ![h] = <<user_message[h]>>]
    /\ \/ BranchDone(h, <<NewsSummary(user_message[h])>>)
       \/ BranchRaised(h)
    /\ UNCHANGED <<user_next_action>>
    /\ BranchFrame

\* Lines 145-155: the state and the prompt of each menu command.
MenuState_AllPrice(b) == STATE_WAITING_STOCK_ID_FOR_PRICE
MenuState(b) ==
    IF b = "menu_price" THEN STATE_WAITING_STOCK_ID_FOR_PRICE
    ELSE IF b = "menu_chart" THEN STATE_WAITING_STOCK_ID_FOR_CHART
    ELSE STATE_WAITING_KEYWORD_FOR_NEWS

MenuPrompt(b) ==
    IF b = "menu_price" THEN PromptPrice
    ELSE IF b = "menu_chart" THEN PromptChart
    ELSE PromptNews

BranchMenu(h) ==
    /\ pc[h] = "branch"
    /\ LET b == BranchOf(current_action[h], user_message[h]) IN
         /\ b \in {"menu_price", "menu_chart", "menu_news"}
         /\ user_next_action' = [user_next_action EXCEPT ![user_id[h]] = MenuState(b)]
         /\ BranchDone(h, <<MenuPrompt(b)>>)
    /\ UNCHANGED <<calls, svc_arg>>
    /\ BranchFrame

\* Outcomes of gemini_model.generate_content(user_message) and of reading
\* response.text: the call raises, reading the text raises, or a text comes
\* back (empty or not after strip) with a prompt_feedback that is absent or
\* carries a block reason.
\* response.prompt_feedback: falsy or missing, or an object whose block
\* reason is unspecified or SAFETY; str() of the reason is its bare name or
\* the name qualified by its enumeration class.
NoFeedback == [truthy |-> FALSE, reason |-> "BLOCK_REASON_UNSPECIFIED", qualified |-> FALSE]
Feedbacks ==
    {NoFeedback}
    \cup {[truthy |-> TRUE, reason |-> r, qualified |-> q] :
             r \in {"BLOCK_REASON_UNSPECIFIED", "SAFETY"}, q \in BOOLEAN}
StrOfReason(f) == IF f.qualified THEN <<"BlockReason", f.reason>> ELSE <<f.reason>>

\* response.text when it can be read: empty, whitespace, a reply, a reply
\* with whitespace around it.
ReplyTexts == {<<>>, <<SP>>, <<"REPLY">>, <<SP, "REPLY", SP>>}

\* Line 161 raises and there is no response; or line 162 raises on reading
\* response.text, as it does for a response without candidates; or the text
\* is read.
AIOutcomes ==
    {[raises |-> "generate_content", text |-> <<>>, feedback |-> NoFeedback]}
    \cup {[raises |-> "text", text |-> <<>>, feedback |-> f] : f \in Feedbacks}
    \cup {[raises |-> None, text |-> t, feedback |-> f] : t \in ReplyTexts, f \in Feedbacks}

\* Line 162: gemini_reply = response.text.strip().
GeminiReply(o) == strip(o.text)

\* Lines 163-175: the reply selected for gemini_reply and the feedback.
BlockSignal(f) == f.truthy /\ StrOfReason(f) # <<"BLOCK_REASON_UNSPECIFIED">>
Selected(gemini_reply, f) ==
    IF gemini_reply = <<>> /\ BlockSignal(f) THEN ChatBlocked
    ELSE IF gemini_reply = <<>> THEN ChatEmpty
    ELSE ChatText

\* Lines 161-178: the reply chosen for an outcome of the AI call.
ChatReply(o) ==
    IF o.raises # None THEN ChatError
    ELSE Selected(GeminiReply(o), o.feedback)

\* Line 159: the AI is consulted only when it was initialised at start-up.
UseGemini_Always(init) == TRUE
UseGemini(init) == init

\* Lines 158-178: open chat.
BranchChat(h) ==
    /\ pc[h] = "branch"
    /\ BranchOf(current_action[h], user_message[h]) = "chat"
    /\ IF UseGemini(GEMINI_INITIALIZED)
       THEN /\ calls' = [calls EXCEPT ![h] = Bump(@, "ai")]
            /\ \E o \in AIOutcomes : BranchDone(h, <<ChatReply(o)>>)
       ELSE /\ calls' = calls
            /\ BranchDone(h, <<ChatNotReady>>)
    /\ UNCHANGED <<user_next_action, svc_arg>>
    /\ BranchFrame

SendFrame == UNCHANGED <<GEMINI_INITIALIZED, user_next_action, signature, user_id>>
Locals    == <<text, user_message, current_action, reply_objects, svc_arg>>

\* handle_text_message returned or raised: its locals are gone and callback
\* answers.
Respond(h, raised) ==
    /\ response' = [response EXCEPT ![h] = CallbackResponse(raised)]
    /\ text' = [text EXCEPT ![h] = <<>>]
    /\ user_message' = [user_message EXCEPT ![h] = <<>>]
    /\ current_action' = [current_action EXCEPT ![h] = None]
    /\ reply_objects' = [reply_objects EXCEPT ![h] = <<>>]
    /\ svc_arg' = [svc_arg EXCEPT ![h] = <<>>]
    /\ pc' = [pc EXCEPT ![h] = "responded"]

\* Lines 181-188: messaging_api.reply_message(reply_objects), one call that the
\* platform accepts or that raises.
Send(h) ==
    /\ pc[h] = "send"
    /\ reply_objects[h] # <<>>
    /\ calls' = [calls EXCEPT ![h] = Bump(@, "reply")]
    /\ \/ /\ sent' = [sent EXCEPT ![h] = Append(@, reply_objects[h])]
          /\ Respond(h, None)
       \/ /\ sent' = sent
          /\ pc' = [pc EXCEPT ![h] = "except"]
          /\ UNCHANGED <<response, Locals>>
    /\ SendFrame

\* Lines 200-201: what is raised out of the handler when the generic reply fails.
GenericFailureRaised == None

\* Where control goes after the generic reply failed.
AfterGenericFailure_Retry == "except"
AfterGenericFailure == "responded"

\* Lines 191-201: the handler of any exception of the try block sends one
\* generic error message; a failure of that send is caught and logged.
Except(h) ==
    /\ pc[h] = "except"
    /\ calls' = [calls EXCEPT ![h] = Bump(@, "reply")]
    /\ \/ /\ sent' = [sent EXCEPT ![h] = Append(@, <<GenericError>>)]
          /\ Respond(h, None)
       \/ /\ sent' = sent
          /\ IF AfterGenericFailure = "responded"
             THEN Respond(h, GenericFailureRaised)
             ELSE /\ pc' = [pc EXCEPT ![h] = AfterGenericFailure]
                  /\ UNCHANGED <<response, Locals>>
    /\ SendFrame

\* The request thread is done and takes the next request.
Release(h) ==
    /\ pc[h] = "responded"
    /\ pc' = [pc EXCEPT ![h] = "idle"]
    /\ signature' = [signature EXCEPT ![h] = None]
    /\ user_id' = [user_id EXCEPT ![h] = 0]
    /\ text' = [text EXCEPT ![h] = <<>>]
    /\ user_message' = [user_message EXCEPT ![h] = <<>>]
    /\ current_action' = [current_action EXCEPT ![h] = None]
    /\ reply_objects' = [reply_objects EXCEPT ![h] = <<>>]
    /\ calls' = [calls EXCEPT ![h] = NoCalls]
    /\ svc_arg' = [svc_arg EXCEPT ![h] = <<>>]
    /\ sent' = [sent EXCEPT ![h] = <<>>]
    /\ response' = [response EXCEPT ![h] = None]
    /\ UNCHANGED <<GEMINI_INITIALIZED, user_next_action>>


-----------------------------------------------------------------------------
(* app.py (the earlier bot): callback and handle_message *)

TrendWord == "TREND_CHART"      \* "趨勢圖"
Codes     == {"2330", "2317"}   \* tokens that are runs of 4 to 6 digits
LegacyTexts == {<<TrendWord>>, <<"2330", TrendWord>>, <<"TSMC", TrendWord>>,
                <<"2330", SP, "2317", SP, TrendWord>>, <<TrendWord, SP, "2317">>,
                <<"2330", SP, "2317">>, <<"2330">>, <<"TSMC">>, <<"hello">>}

Contains(s, w) == \E i \in 1..Len(s) : s[i] = w

\* re.findall(r'\d{4,6}', user_input) on a text of tokens.
IsCode(tok) == tok \in Codes
FindCodes(s) == SelectSeq(s, IsCode)

\* What the model's reply yields in extract_stock_id: codes, or None (written
\* <<>>, as falsy as None) when the reply holds no code or the call raised.
AIExtractions == {<<>>, <<"2330">>, <<"2317">>, <<"2330", "2317">>}

NoLegacyCalls == [ai |-> 0, chart |-> 0, reply |-> 0]

LegacyInit ==
    /\ lpc = "idle" /\ lsignature = None /\ ltext = <<>> /\ lids = <<>>
    /\ lreply = None /\ lcalls = NoLegacyCalls /\ lsent = <<>> /\ lresponse = None

\* callback of app.py catches InvalidSignatureError only; any other exception
\* leaves the view function and Flask answers 500.
LegacyCallbackResponse(raised) ==
    IF raised = "InvalidSignatureError" THEN "400"
    ELSE IF raised # None THEN "500"
    ELSE "OK"

L_CallbackRejected ==
    /\ lpc = "idle"
    /\ \E sig \in {"valid", "invalid"} :
         /\ ~SignatureVerifies(sig)
         /\ lsignature' = sig
         /\ lresponse' = LegacyCallbackResponse("InvalidSignatureError")
    /\ lpc' = "responded"
    /\ UNCHANGED <<ltext, lids, lreply, lcalls, lsent>>

L_CallbackAccepted ==
    /\ lpc = "idle"
    /\ \E sig \in {"valid", "invalid"}, t \in LegacyTexts :
         /\ SignatureVerifies(sig)
         /\ lsignature' = sig
         /\ ltext' = t
    /\ lpc' = "handle"
    /\ UNCHANGED <<lids, lreply, lcalls, lsent, lresponse>>

\* extract_stock_id: the regex result when it matched, else one AI call.
L_Extract(t, ids, c) ==
    \/ /\ FindCodes(t) # <<>>
       /\ ids = FindCodes(t) /\ c = 0
    \/ /\ FindCodes(t) = <<>>
       /\ ids \in AIExtractions /\ c = 1

\* Lines 66-70 and 96-101: a text with the trend word: extract the codes; with
\* none, the not-recognised text is the reply.
L_HandleTrend ==
    /\ lpc = "handle"
    /\ Contains(ltext, TrendWord)
    /\ \E ids \in AIExtractions \cup {FindCodes(ltext)}, c \in {0, 1} :
         /\ L_Extract(ltext, ids, c)
         /\ lids' = ids
         /\ lcalls' = [lcalls EXCEPT !.ai = @ + c]
         /\ IF ids # <<>>
            THEN lpc' = "chart" /\ lreply' = lreply
            ELSE lpc' = "reply" /\ lreply' = "NOT_RECOGNISED"
    /\ UNCHANGED <<lsignature, ltext, lsent, lresponse>>

\* Lines 72-88: txt_to_img_url(stock_ids[0]) gives a URL or None.
L_Chart ==
    /\ lpc = "chart"
    /\ lcalls' = [lcalls EXCEPT !.chart = @ + 1]
    /\ lreply' \in {"IMAGE", "NO_CHART"}
    /\ lpc' = "reply_in_try"
    /\ UNCHANGED <<lsignature, ltext, lids, lsent, lresponse>>

\* Lines 103-104: process_user_input: extract_stock_id, then chat_with_gemini.
L_HandleChat ==
    /\ lpc = "handle"
    /\ ~Contains(ltext, TrendWord)
    /\ \E ids \in AIExtractions \cup {FindCodes(ltext)}, c \in {0, 1} :
         /\ L_Extract(ltext, ids, c)
         /\ lids' = ids
         /\ lcalls' = [lcalls EXCEPT !.ai = @ + c + 1]
    /\ lreply' = "REPLY_TEXT"
    /\ lpc' = "reply"
    /\ UNCHANGED <<lsignature, ltext, lsent, lresponse>>

L_Respond(raised) ==
    /\ lresponse' = LegacyCallbackResponse(raised)
    /\ lpc' = "responded"

\* Lines 77-88: reply_message inside the try block; when it raises, the
\* handler of line 89 takes over.
L_ReplyInTry ==
    /\ lpc = "reply_in_try"
    /\ lcalls' = [lcalls EXCEPT !.reply = @ + 1]
    /\ \/ lsent' = Append(lsent, lreply) /\ L_Respond(None) /\ lreply' = lreply
       \/ lsent' = lsent /\ lpc' = "except" /\ lreply' = "CHART_ERROR" /\ lresponse' = lresponse
    /\ UNCHANGED <<lsignature, ltext, lids>>

\* Lines 89-95, 97-100 and 106-109: reply_message outside any try block; when
\* it raises, the exception leaves handle_message and callback.
L_Reply ==
    /\ lpc \in {"reply", "except"}
    /\ lcalls' = [lcalls EXCEPT !.reply = @ + 1]
    /\ \/ lsent' = Append(lsent, lreply) /\ L_Respond(None)
       \/ lsent' = lsent /\ L_Respond("LineBotApiError")
    /\ UNCHANGED <<lsignature, ltext, lids, lreply>>

L_Release ==
    /\ lpc = "responded"
    /\ lpc' = "idle" /\ lsignature' = None /\ ltext' = <<>> /\ lids' = <<>>
    /\ lreply' = None /\ lcalls' = NoLegacyCalls /\ lsent' = <<>> /\ lresponse' = None

LegacyNext ==
    \/ L_CallbackRejected
    \/ L_CallbackAccepted
    \/ L_HandleTrend
    \/ L_Chart
    \/ L_HandleChat
    \/ L_ReplyInTry
    \/ L_Reply
    \/ L_Release

-----------------------------------------------------------------------------
(* services/stock_price.py: get_stock_price *)

\* Exceptions are written as the set of classes they are instances of, so that
\* "except C" matches an exception e exactly when C \in e.
ExcConnectTimeout  == {"ConnectTimeout", "ConnectionError", "Timeout", "RequestException", "Exception"}
ExcReadTimeout     == {"ReadTimeout", "Timeout", "RequestException", "Exception"}
ExcConnectionError == {"ConnectionError", "RequestException", "Exception"}
ExcTooManyRedirects == {"TooManyRedirects", "RequestException", "Exception"}
ExcHTTPError       == {"HTTPError", "RequestException", "Exception"}
\* response.json() on a body that is not JSON: requests.exceptions.JSONDecodeError
\* (requests 2.27 and later), a plain ValueError subclass before.
ExcJSONDecodeError == {"JSONDecodeError", "InvalidJSONError", "RequestException", "ValueError", "Exception"}
ExcJSONValueError  == {"JSONDecodeError", "ValueError", "Exception"}
ExcValueError      == {"ValueError", "Exception"}
ExcTypeError       == {"TypeError", "Exception"}
ExcAttributeError  == {"AttributeError", "Exception"}

StockIds == {<<"2330">>, <<"99999">>}

Keys       == {"n", "z", "o", "h", "l", "y"}
PriceKeys  == <<"z", "o", "h", "l", "y">>

\* Field values of the upstream element: the placeholder "-", a decimal number
\* given in thousandths, a text that float() rejects, a text that float()
\* accepts without a finite value ("nan", "inf", "1e999"), JSON null.
Dash      == [kind |-> "dash", milli |-> 0]
Num(m)    == [kind |-> "num", milli |-> m]
Garbage   == [kind |-> "garbage", milli |-> 0]
NonFinite == [kind |-> "nonfinite", milli |-> 0]
Null      == [kind |-> "null", milli |-> 0]
Absent    == [kind |-> "absent", milli |-> 0]
\* The numbers drawn are 583.0000 and 46.1250: a thousandths digit of 5 is
\* drawn only where the decimal is exact in binary (a multiple of 0.125), so
\* that the rounding of Fixed2 is the one float formatting performs.
FieldValues == {Dash, Num(583000), Num(46125), Garbage, NonFinite, Null}

\* First elements of msgArray: an object with all six keys, or with one key
\* missing; only two of the price fields vary, the others hold a number.
Element(z, y, missing) ==
    [k \in Keys |->
        IF k = missing THEN Absent
        ELSE IF k = "z" THEN z
        ELSE IF k = "y" THEN y
        ELSE IF k = "n" THEN [kind |-> "text", milli |-> 0]
        ELSE Num(580120)]
Elements == {Element(z, y, m) : z \in FieldValues, y \in FieldValues, m \in Keys \cup {None}}

\* What the exchange endpoint does with the one GET.
Upstreams ==
    {[kind |-> "raises", exc |-> e, status |-> 0, body |-> None, elem |-> Element(Dash, Dash, None)] :
        e \in {ExcConnectTimeout, ExcReadTimeout, ExcConnectionError, ExcTooManyRedirects}}
    \cup {[kind |-> "response", exc |-> {}, status |-> st, body |-> b, elem |-> Element(Dash, Dash, None)] :
        st \in {200, 404, 503},
        b \in {"not_json", "not_json_old_requests", "json_list", "no_msgArray", "empty_msgArray",
               "null_msgArray", "number_element"}}
    \cup {[kind |-> "response", exc |-> {}, status |-> 200, body |-> "object", elem |-> el] :
        el \in Elements}

PriceInit ==
    /\ ppc = "start" /\ stock_id \in StockIds /\ upstream \in Upstreams /\ exc = {}
    /\ http_requests = 0 /\ result = None

\* Result messages, named by their fixed text; every returned text
\* interpolates {stock_id}: code is the code the message names.
Msg(m)        == [escaped |-> FALSE, msg |-> m, lines |-> <<>>, code |-> <<>>]
Rendered(ls)  == [escaped |-> FALSE, msg |-> "QUOTE", lines |-> ls, code |-> <<>>]
Escaped       == [escaped |-> TRUE, msg |-> None, lines |-> <<>>, code |-> <<>>]
Naming(r, id) == IF r.escaped THEN r ELSE [r EXCEPT !.code = id]

\* Lines 83-100: the except clauses in their order, each with its message.
Handlers_NoCatchAll ==
    << <<"HTTPError", "HTTP_ERROR">>,
       <<"ConnectionError", "CONNECTION_FAILED">>,
       <<"Timeout", "TIMEOUT">>,
       <<"RequestException", "UNKNOWN_REQUEST_PROBLEM">>,
       <<"ValueError", "CANNOT_PARSE">> >>
ExceptClauses ==
    << <<"HTTPError", "HTTP_ERROR">>,
       <<"ConnectionError", "CONNECTION_FAILED">>,
       <<"Timeout", "TIMEOUT">>,
       <<"RequestException", "UNKNOWN_REQUEST_PROBLEM">>,
       <<"ValueError", "CANNOT_PARSE">>,
       <<"Exception", "UNEXPECTED_ERROR">> >>

\* The first clause that matches the exception, or the exception escapes.
RECURSIVE Caught(_, _)
Caught(e, clauses) ==
    IF clauses = <<>> THEN Escaped
    ELSE IF Head(clauses)[1] \in e THEN Msg(Head(clauses)[2])
    ELSE Caught(e, Tail(clauses))

PriceFrame == UNCHANGED <<stock_id, upstream>>

\* Line 23: requests.get(url, headers, timeout=10), the one request.
P_Get ==
    /\ ppc = "start"
    /\ http_requests' = http_requests + 1
    /\ IF upstream.kind = "raises"
       THEN exc' = upstream.exc /\ ppc' = "except"
       ELSE exc' = exc /\ ppc' = "raise_for_status"
    /\ result' = result
    /\ PriceFrame

\* Line 24: response.raise_for_status().
P_RaiseForStatus ==
    /\ ppc = "raise_for_status"
    /\ IF upstream.status >= 400
       THEN exc' = ExcHTTPError /\ ppc' = "except"
       ELSE exc' = exc /\ ppc' = "json"
    /\ UNCHANGED <<http_requests, result>>
    /\ PriceFrame

\* Lines 25-28: data = response.json(), data.get('msgArray') and its len().
P_Json ==
    /\ ppc = "json"
    /\ CASE upstream.body = "not_json" -> exc' = ExcJSONDecodeError /\ ppc' = "except" /\ result' = result
         [] upstream.body = "not_json_old_requests" -> exc' = ExcJSONValueError /\ ppc' = "except" /\ result' = result
         [] upstream.body = "json_list" -> exc' = ExcAttributeError /\ ppc' = "except" /\ result' = result
         [] upstream.body \in {"no_msgArray", "empty_msgArray", "null_msgArray"} ->
                exc' = exc /\ ppc' = "done" /\ result' = Naming(Msg("NOT_FOUND"), stock_id)
         [] OTHER -> exc' = exc /\ ppc' = "element" /\ result' = result
    /\ UNCHANGED http_requests
    /\ PriceFrame

\* Line 62: f"{float_val:.2f}" of m thousandths: the nearest hundredth, an
\* exact tie going to the even hundredth (46.125 is shown as 46.12).
Fixed2(m) ==
    LET q == m \div 10
        r == m % 10
    IN [kind |-> "fixed2",
        centi |-> IF r < 5 THEN q
                  ELSE IF r > 5 THEN q + 1
                  ELSE IF q % 2 = 0 THEN q ELSE q + 1]
ShownDash == [kind |-> "dash", centi |-> 0]
\* Line 62 for float("nan") and float("inf"): the text "nan" or "inf".
ShownNonFinite == [kind |-> "nonfinite", centi |-> 0]

\* Lines 56-64 for one field: the text shown, or the exception that leaves
\* the inner try, which catches ValueError only: float(None) is a TypeError.
FormatField(v) ==
    IF v.kind = "dash" THEN [exc |-> {}, shown |-> ShownDash]
    ELSE IF v.kind = "num" THEN [exc |-> {}, shown |-> Fixed2(v.milli)]
    ELSE IF v.kind = "nonfinite" THEN [exc |-> {}, shown |-> ShownNonFinite]
    ELSE IF v.kind = "garbage" THEN [exc |-> {}, shown |-> ShownDash]
    ELSE [exc |-> ExcTypeError, shown |-> ShownDash]

\* Line 32: all(k in stock_info for k in ["n", "z", "o", "h", "l", "y"]).
HasAllKeys_PricesOnly(el) == \A i \in 1..Len(PriceKeys) : el[PriceKeys[i]].kind # "absent"
HasAllKeys(el) == \A k \in Keys : el[k].kind # "absent"

\* Lines 29-74: the first element: the key check, then the five fields.
P_Element ==
    /\ ppc = "element"
    /\ IF upstream.body = "number_element"
       THEN exc' = ExcTypeError /\ ppc' = "except" /\ result' = result
       ELSE LET el == upstream.elem
                f  == [i \in 1..Len(PriceKeys) |-> FormatField(el[PriceKeys[i]])]
                bad == {i \in 1..Len(PriceKeys) : f[i].exc # {}}
            IN IF ~HasAllKeys(el)
               THEN exc' = exc /\ ppc' = "done" /\ result' = Naming(Msg("DATA_INCOMPLETE"), stock_id)
               ELSE IF bad # {}
               THEN exc' = ExcTypeError /\ ppc' = "except" /\ result' = result
               ELSE /\ exc' = exc /\ ppc' = "done"
                    /\ result' = Naming(Rendered(<<el["n"]>> \o [i \in 1..Len(PriceKeys) |-> f[i].shown]),
                                        stock_id)
    /\ UNCHANGED http_requests
    /\ PriceFrame

\* Lines 83-100: the raised exception meets the except clauses.
P_Except ==
    /\ ppc = "except"
    /\ result' = Naming(Caught(exc, ExceptClauses), stock_id)
    /\ ppc' = "done"
    /\ UNCHANGED <<exc, http_requests>>
    /\ PriceFrame

PriceNext ==
    \/ P_Get
    \/ P_RaiseForStatus
    \/ P_Json
    \/ P_Element
    \/ P_Except

-----------------------------------------------------------------------------
(* services/stock_chart.py: extract_stock_id_from_text, and                *)
(* stock_chart+ans.py: extract_stock_id.  Here a text is a sequence of     *)
(* characters.                                                             *)

Digits  == {"0", "1", "2", "3", "4", "5", "6", "7", "8", "9"}
CJK     == "CJK"                   \* any Chinese character
COMMA   == ","
Letters == {"N", "O", "E", "o", "n", "e"}

\* \w of a str pattern: letters, digits and the underscore of any script, so
\* a Chinese character is a word character.
IsWord(c) == c \in Digits \cup Letters \cup {CJK}

WordAt(s, p) == p >= 1 /\ p <= Len(s) /\ IsWord(s[p])

\* \b in front of position p: exactly one of the two neighbours is a word
\* character.
Boundary(s, p) == WordAt(s, p - 1) # WordAt(s, p)

MinDigits == 4
MaxDigits == 6

AllDigits(s, i, n) == i + n - 1 <= Len(s) /\ \A j \in i..(i + n - 1) : s[j] \in Digits

\* The length of the match of \d{4,6} (bounded: of \b\d{4,6}\b) at position
\* i, longest first, 0 when there is none.
MatchLen(s, i, bounded) ==
    LET Ok(n) == /\ AllDigits(s, i, n)
                 /\ bounded => (Boundary(s, i) /\ Boundary(s, i + n))
        lens  == {n \in MinDigits..MaxDigits : Ok(n)}
    IN IF lens = {} THEN 0 ELSE CHOOSE n \in lens : \A k \in lens : k <= n

\* re.findall: the non-overlapping matches from left to right.
RECURSIVE FindAllFrom(_, _, _)
FindAllFrom(s, i, bounded) ==
    IF i > Len(s) THEN <<>>
    ELSE LET n == MatchLen(s, i, bounded)
         IN IF n > 0
            THEN <<SubSeq(s, i, i + n - 1)>> \o FindAllFrom(s, i + n, bounded)
            ELSE FindAllFrom(s, i + 1, bounded)
findall(s, bounded) == FindAllFrom(s, 1, bounded)

Range(q) == {q[i] : i \in 1..Len(q)}

\* list(set(matches)): the distinct matches in the iteration order of a set
\* of strings, which depends on the hash seed of the process: any order.
ListOfSet(q) ==
    {l \in [1..Cardinality(Range(q)) -> Range(q)] :
        \A i, j \in 1..Cardinality(Range(q)) : i # j => l[i] # l[j]}

isdigit(s) == s # <<>> /\ \A i \in 1..Len(s) : s[i] \in Digits

Upper(c) == IF c = "o" THEN "O" ELSE IF c = "n" THEN "N" ELSE IF c = "e" THEN "E" ELSE c
upper(s) == [i \in 1..Len(s) |-> Upper(s[i])]

\* The two implementations.
Resolvers == {"extract_stock_id_from_text", "extract_stock_id"}
Bounded(impl) == impl = "extract_stock_id_from_text"

\* Input texts: every text of at most MaxTextLen characters over a digit, a
\* Chinese character and a space, and some longer ones.
MaxTextLen == 5
ResolverTexts ==
    UNION {[1..k -> {"2", CJK, SP}] : k \in 0..MaxTextLen}
    \cup { <<"2", "3", "3", "0", CJK, "2", "3", "1", "7", CJK, CJK>>,              \* "2330和2317比較"
           <<"2", "3", "3", "0", SP, "2", "3", "1", "7", SP, "2", "3", "3", "0">>,  \* "2330 2317 2330"
           <<"1", "2", "3", "4", "5", "6", "7">>,
           <<"1", "2", "3">>,
           <<CJK, CJK, CJK, "2", "3", "3", "0", CJK, CJK, CJK>> }                   \* "我想看2330的走勢"

\* What the model call does: it raises, or response.text is one of these.
AIReplyTexts ==
    { <<"N", "o", "n", "e">>,
      <<"n", "o", "n", "e", SP>>,
      <<CJK, CJK>>,
      <<"1", "2", "3">>,
      <<"2", "3", "3", "0">>,
      <<"2", "3", "1", "7", COMMA, SP, "2", "3", "3", "0", COMMA, "2", "3", "1", "7">>,
      <<CJK, "2", "3", "3", "0">> }
ResolverAIOutcomes ==
    {[raises |-> TRUE, reply |-> <<>>]}
    \cup {[raises |-> FALSE, reply |-> r] : r \in AIReplyTexts}

NoReply == [raises |-> FALSE, reply |-> <<>>]

Pending       == [kind |-> "pending", ids |-> <<>>]
ReturnNone    == [kind |-> "none", ids |-> <<>>]
ReturnList(l) == [kind |-> "list", ids |-> l]

\* Lines 123 and 152 (list(set(matches))), line 49 and 57 (the matches as
\* found): the lists the implementation may return for the matches q.
Returned(impl, q) ==
    IF Bounded(impl) THEN {ReturnList(l) : l \in ListOfSet(q)} ELSE {ReturnList(q)}

\* Line 127: the AI model is asked only for a text that is not purely numeric
\* and with a configured key; extract_stock_id asks whenever nothing matched.
UseAI_Always(impl, t, key) == TRUE
UseAI(impl, t, key) == Bounded(impl) => (~isdigit(t) /\ key)

ResolverInit ==
    /\ rpc = "start" /\ rimpl \in Resolvers /\ rtext \in ResolverTexts
    /\ rkey \in BOOLEAN /\ rreply = NoReply /\ rai_calls = 0 /\ rresult = Pending

ResolverFrame == UNCHANGED <<rimpl, rtext, rkey>>

\* Lines 120-127 (47-49): the regex scan of the input and the guard.
R_Scan ==
    /\ rpc = "start"
    /\ LET q == findall(rtext, Bounded(rimpl))
       IN IF q # <<>>
          THEN rresult' \in Returned(rimpl, q) /\ rpc' = "done"
          ELSE IF UseAI(rimpl, rtext, rkey)
          THEN rresult' = rresult /\ rpc' = "ai"
          ELSE rresult' = ReturnNone /\ rpc' = "done"
    /\ UNCHANGED <<rreply, rai_calls>>
    /\ ResolverFrame

\* Lines 130-143 (52-55): model.generate_content(prompt) and response.text,
\* inside the try; without a key the call cannot succeed.
R_AskAI ==
    /\ rpc = "ai"
    /\ rai_calls' = rai_calls + 1
    /\ \E o \in ResolverAIOutcomes :
          /\ ~rkey => o.raises
          /\ rreply' = o
          /\ IF o.raises
             THEN rresult' = ReturnNone /\ rpc' = "done"       \* except Exception
             ELSE rresult' = rresult /\ rpc' = "rescan"
    /\ ResolverFrame

\* Lines 143-153 (56-57): the reply is scanned with the same pattern.
R_Rescan ==
    /\ rpc = "rescan"
    /\ LET ai_response == IF Bounded(rimpl) THEN strip(rreply.reply) ELSE rreply.reply
           q == findall(ai_response, Bounded(rimpl))
       IN IF Bounded(rimpl) /\ upper(ai_response) = <<"N", "O", "N", "E">>
          THEN rresult' = ReturnNone
          ELSE IF q # <<>>
          THEN rresult' \in Returned(rimpl, q)
          ELSE rresult' = ReturnNone
    /\ rpc' = "done"
    /\ UNCHANGED <<rreply, rai_calls>>
    /\ ResolverFrame

ResolverNext ==
    \/ R_Scan
    \/ R_AskAI
    \/ R_Rescan

ResolverIdle ==
    /\ rpc = "idle" /\ rimpl = None /\ rtext = <<>> /\ rkey = FALSE
    /\ rreply = NoReply /\ rai_calls = 0 /\ rresult = Pending

-----------------------------------------------------------------------------
(* services/stock_chart.py: generate_stock_chart_image with                *)
(* get_stock_data_for_chart, and stock_chart+ans.py: txt_to_img_url with   *)
(* upload_to_cloudinary.                                                   *)

ChartImpls == {"generate_stock_chart_image", "txt_to_img_url"}

\* The three image-hosting settings read from the environment.
Credentials == {"CLOUDINARY_CLOUD_NAME", "CLOUDINARY_API_KEY", "CLOUDINARY_API_SECRET"}

\* Line 276: all([os.getenv(...), os.getenv(...), os.getenv(...)]).
CredentialsComplete_Any(c) == c # {}
CredentialsComplete(c) == Credentials \subseteq c

\* The history twstock holds for the code: the constructor raises, or there
\* are up to MaxPoints trading days, each within the window of the last
\* months * 30 days or older, each with a numeric close or with None.
MaxPoints == 2
PointKinds == [in_window : BOOLEAN, numeric : BOOLEAN]
Histories ==
    {[raises |-> TRUE, points |-> <<>>]}
    \cup {[raises |-> FALSE, points |-> p] :
            p \in UNION {[1..k -> PointKinds] : k \in 0..MaxPoints}}

InWindow(p) == p.in_window

\* Line 269: a file name of tempfile's own choosing; line 105 of the earlier
\* module: f'{stock_id}.png' in the working directory.
TempName == "tmpXXXXXXXX.png"
FileName(code) == IF code = <<"2330">> THEN "2330.png" ELSE "99999.png"

NoChartCalls == [fetch |-> 0, render |-> 0, create |-> 0, check |-> 0, upload |-> 0]

Running       == [kind |-> "running"]
ChartUrl      == [kind |-> "url"]
ChartNone     == [kind |-> "none"]
ChartRaised   == [kind |-> "raised"]

ChartInit ==
    /\ gpc = "start" /\ gimpl \in ChartImpls /\ gcode = <<"2330">>
    /\ ghist \in Histories /\ gcreds \in SUBSET Credentials
    /\ gframe = <<>> /\ gname = None /\ gdisk = {} /\ gtemp = None
    /\ gcount = NoChartCalls /\ gresult = Running

ChartFrame == UNCHANGED <<gimpl, gcode, ghist, gcreds>>

Count(k) == gcount' = [gcount EXCEPT ![k] = @ + 1]

Services == gimpl = "generate_stock_chart_image"
Earlier  == gimpl = "txt_to_img_url"

\* Lines 220-225 with get_stock_data_for_chart (160-208): the history, the
\* window, the two emptiness checks; whatever is raised in there is caught
\* at line 205.
G_Fetch ==
    /\ gpc = "start" /\ Services
    /\ Count("fetch")
    /\ LET df == SelectSeq(ghist.points, InWindow)
       IN IF ghist.raises \/ ghist.points = <<>> \/ df = <<>>
          THEN gframe' = gframe /\ gresult' = ChartNone /\ gpc' = "done"
          ELSE gframe' = df /\ gresult' = gresult /\ gpc' = "name"
    /\ UNCHANGED <<gname, gdisk, gtemp>>
    /\ ChartFrame

\* Lines 228-242: the name from the table, from twstock.realtime, or the code
\* when the lookup finds nothing or raises.
G_Name ==
    /\ gpc = "name" /\ Services
    /\ gname' \in {"table", "realtime", "code"}
    /\ gpc' = "render"
    /\ UNCHANGED <<gframe, gdisk, gtemp, gcount, gresult>>
    /\ ChartFrame

\* Lines 244-262: style, figure, plot, title, axes: outside every try, so
\* what is raised here leaves the function.
G_Render ==
    /\ gpc = "render" /\ Services
    /\ Count("render")
    /\ \E raises \in BOOLEAN :
          IF raises
          THEN gresult' = ChartRaised /\ gpc' = "done"
          ELSE gresult' = gresult /\ gpc' = "create"
    /\ UNCHANGED <<gframe, gname, gdisk, gtemp>>
    /\ ChartFrame

\* Lines 267-269: tempfile.NamedTemporaryFile(suffix=".png", delete=False).
G_Create ==
    /\ gpc = "create" /\ Services
    /\ \E raises \in BOOLEAN :
          IF raises
          THEN /\ gresult' = ChartNone /\ gpc' = "finally"      \* line 284
               /\ UNCHANGED <<gdisk, gtemp, gcount>>
          ELSE /\ gtemp' = TempName /\ gdisk' = gdisk \cup {TempName}
               /\ Count("create")
               /\ gresult' = gresult /\ gpc' = "savefig"
    /\ UNCHANGED <<gframe, gname>>
    /\ ChartFrame

\* Lines 270-273: plt.savefig(temp_image_file.name), plt.close(fig).
G_Savefig ==
    /\ gpc = "savefig" /\ Services
    /\ \E raises \in BOOLEAN :
          IF raises
          THEN gresult' = ChartNone /\ gpc' = "finally"
          ELSE gresult' = gresult /\ gpc' = "check"
    /\ UNCHANGED <<gframe, gname, gdisk, gtemp, gcount>>
    /\ ChartFrame

\* Lines 276-278: the credentials are looked at here, after the file exists.
G_CheckCredentials ==
    /\ gpc = "check" /\ Services
    /\ Count("check")
    /\ IF ~CredentialsComplete(gcreds)
       THEN gresult' = ChartNone /\ gpc' = "finally"
       ELSE gresult' = gresult /\ gpc' = "upload"
    /\ UNCHANGED <<gframe, gname, gdisk, gtemp>>
    /\ ChartFrame

\* Lines 280-288: cloudinary.uploader.upload raises, or answers without or
\* with a secure_url.
G_Upload ==
    /\ gpc = "upload" /\ Services
    /\ Count("upload")
    /\ \E o \in {"raises", "no_url", "url"} :
          gresult' = IF o = "url" THEN ChartUrl ELSE ChartNone
    /\ gpc' = "finally"
    /\ UNCHANGED <<gframe, gname, gdisk, gtemp>>
    /\ ChartFrame

\* Lines 289-293: finally: the file is removed when it was created and is
\* still there; then the pending return takes place.
G_Finally ==
    /\ gpc = "finally" /\ Services
    /\ gdisk' = IF gtemp # None /\ gtemp \in gdisk THEN gdisk \ {gtemp} ELSE gdisk
    /\ gpc' = "done"
    /\ UNCHANGED <<gframe, gname, gtemp, gcount, gresult>>
    /\ ChartFrame

\* Earlier module, lines 104-110: twstock.Stock(stock_id), the file name, the
\* frame of all dates and closes; no window and no emptiness check.
T_Fetch ==
    /\ gpc = "start" /\ Earlier
    /\ Count("fetch")
    /\ IF ghist.raises
       THEN gframe' = gframe /\ gresult' = ChartNone /\ gpc' = "done"   \* line 123
       ELSE gframe' = ghist.points /\ gresult' = gresult /\ gpc' = "render"
    /\ UNCHANGED <<gname, gdisk, gtemp>>
    /\ ChartFrame

\* Lines 112-113: df.plot(x='date', y='close') raises TypeError when the
\* frame has no numeric close, and may fail otherwise.
T_Render ==
    /\ gpc = "render" /\ Earlier
    /\ Count("render")
    /\ \E raises \in BOOLEAN :
          /\ (\A i \in 1..Len(gframe) : ~gframe[i].numeric) => raises
          /\ IF raises
             THEN gresult' = ChartNone /\ gpc' = "done"
             ELSE gresult' = gresult /\ gpc' = "savefig"
    /\ UNCHANGED <<gframe, gname, gdisk, gtemp>>
    /\ ChartFrame

\* Lines 114-115: plt.savefig(file_name) writes the file in the working
\* directory; when it fails the file may or may not have been created.
T_Savefig ==
    /\ gpc = "savefig" /\ Earlier
    /\ \E o \in {"fails_before_create", "fails_after_create", "ok"} :
          /\ IF o = "fails_before_create"
             THEN UNCHANGED <<gdisk, gtemp, gcount>>
             ELSE /\ gtemp' = FileName(gcode) /\ gdisk' = gdisk \cup {FileName(gcode)}
                  /\ Count("create")
          /\ IF o = "ok"
             THEN gresult' = gresult /\ gpc' = "upload"
             ELSE gresult' = ChartNone /\ gpc' = "done"
    /\ UNCHANGED <<gframe, gname>>
    /\ ChartFrame

\* Lines 117-122 with upload_to_cloudinary (93-99): the upload, which fails
\* without complete credentials; the file is removed on success only.
T_Upload ==
    /\ gpc = "upload" /\ Earlier
    /\ Count("upload")
    /\ \E o \in {"raises", "url"} :
          /\ ~CredentialsComplete(gcreds) => o = "raises"
          /\ IF o = "url"
             THEN gdisk' = gdisk \ {gtemp} /\ gresult' = ChartUrl
             ELSE gdisk' = gdisk /\ gresult' = ChartNone
    /\ gpc' = "done"
    /\ UNCHANGED <<gframe, gname, gtemp>>
    /\ ChartFrame

ChartNext ==
    \/ G_Fetch
    \/ G_Name
    \/ G_Render
    \/ G_Create
    \/ G_Savefig
    \/ G_CheckCredentials
    \/ G_Upload
    \/ G_Finally
    \/ T_Fetch
    \/ T_Render
    \/ T_Savefig
    \/ T_Upload

ChartIdle ==
    /\ gpc = "idle" /\ gimpl = None /\ gcode = <<>> /\ ghist = [raises |-> FALSE, points |-> <<>>]
    /\ gcreds = {} /\ gframe = <<>> /\ gname = None /\ gdisk = {} /\ gtemp = None
    /\ gcount = NoChartCalls /\ gresult = Running

-----------------------------------------------------------------------------
(* services/app.py, lines 158-178: the open-chat branch on its own, with   *)
(* the outcome of the AI call kept.                                        *)

NoOutcome == [raises |-> None, text |-> <<>>, feedback |-> NoFeedback]

ChatInit ==
    /\ kpc = "start" /\ kmessage \in {FreeText, <<"HELLO">>}
    /\ koutcome = NoOutcome /\ kgemini = <<>> /\ kreply = TextMsg(None) /\ kcalls = 0

\* Line 161: response = gemini_model.generate_content(user_message).
K_Generate ==
    /\ kpc = "start"
    /\ kcalls' = kcalls + 1
    /\ \E o \in AIOutcomes :
          /\ koutcome' = o
          /\ kpc' = IF o.raises = "generate_content" THEN "except" ELSE "text"
    /\ UNCHANGED <<kmessage, kgemini, kreply>>

\* Line 162: gemini_reply = response.text.strip().
K_Text ==
    /\ kpc = "text"
    /\ IF koutcome.raises = "text"
       THEN kgemini' = kgemini /\ kpc' = "except"
       ELSE kgemini' = GeminiReply(koutcome) /\ kpc' = "select"
    /\ UNCHANGED <<kmessage, koutcome, kreply, kcalls>>

\* Lines 163-175: the fixed texts for an empty gemini_reply.
K_Select ==
    /\ kpc = "select"
    /\ kreply' = Selected(kgemini, koutcome.feedback)
    /\ kpc' = "done"
    /\ UNCHANGED <<kmessage, koutcome, kgemini, kcalls>>

\* Lines 176-178: except Exception: the provider-error apology.
K_Except ==
    /\ kpc = "except"
    /\ kreply' = ChatError
    /\ kpc' = "done"
    /\ UNCHANGED <<kmessage, koutcome, kgemini, kcalls>>

ChatNext ==
    \/ K_Generate
    \/ K_Text
    \/ K_Select
    \/ K_Except

ChatIdle ==
    /\ kpc = "idle" /\ kmessage = <<>> /\ koutcome = NoOutcome /\ kgemini = <<>>
    /\ kreply = TextMsg(None) /\ kcalls = 0

-----------------------------------------------------------------------------
(* services/news_summary.py: process_news_query_and_get_summary with       *)
(* get_first_news_url_from_google and extract_and_summarize_news_article.  *)
(* A message is a sequence of tokens, the keyword a part of it where the   *)
(* code interpolates it.                                                   *)

NewsQueries == {<<"TSMC">>, <<"AI", SP, "STOCKS">>, <<"0050">>}   \* "台積電", "AI 概念股", "0050"

\* What the search yields: a list of up to MaxResults URLs, absolute or
\* not, or an exception of the HTTP library (status 429 or another), or any
\* other exception.
MaxResults == 2
UrlKinds == {"https://news", "/search?q="}
SearchOutcomes ==
    {[kind |-> k, urls |-> <<>>] : k \in {"HTTPError_429", "HTTPError_503", "Exception"}}
    \cup {[kind |-> "results", urls |-> u] : u \in UNION {[1..n -> UrlKinds] : n \in 0..MaxResults}}

NoUrl        == <<"None">>
TooFrequent  == <<"SEARCH_TOO_FREQUENT">>                \* "搜尋請求過於頻繁，請稍後再試。"

\* Line 207, a plain string literal, not an f-string: the braces and the
\* name between them are part of the text.
NotFoundMessage == <<"SORRY_NO_NEWS_FOR", "{user_query}", "CHECK_KEYWORD_OR_RETRY">>

NoNewsCalls == [search |-> 0, download |-> 0, probe |-> 0, ai |-> 0]

NewsInit ==
    /\ npc = "start" /\ nquery \in NewsQueries /\ nsearch \in SearchOutcomes
    /\ nurl = NoUrl /\ ncount = NoNewsCalls /\ nresult = <<>>

NewsFrame == UNCHANGED <<nquery, nsearch>>

NCount(k) == ncount' = [ncount EXCEPT ![k] = @ + 1]

\* Lines 100-138: the search; the first result, None for no result and for
\* an exception, the too-frequent text for HTTP 429.
N_Search ==
    /\ npc = "start"
    /\ NCount("search")
    /\ nurl' = IF nsearch.kind = "results" /\ nsearch.urls # <<>> THEN <<nsearch.urls[1]>>
               ELSE IF nsearch.kind = "HTTPError_429" THEN TooFrequent
               ELSE NoUrl
    /\ npc' = "branch"
    /\ nresult' = nresult
    /\ NewsFrame

\* Lines 206-209: no URL, or the too-frequent text, ends the call.
N_Branch ==
    /\ npc = "branch"
    /\ IF nurl = NoUrl THEN nresult' = NotFoundMessage /\ npc' = "done"
       ELSE IF nurl = TooFrequent THEN nresult' = nurl /\ npc' = "done"
       ELSE nresult' = nresult /\ npc' = "article"
    /\ UNCHANGED <<nurl, ncount>>
    /\ NewsFrame

\* Lines 150-172: the URL check, article.download() and article.parse().
N_Article ==
    /\ npc = "article"
    /\ IF nurl # <<"https://news">>
       THEN nresult' = <<"ERROR_INVALID_URL">> /\ npc' = "done" /\ ncount' = ncount
       ELSE /\ NCount("download")
            /\ \E o \in {"raises", "no_content", "ok"} :
                  IF o = "raises"
                  THEN nresult' = <<"ERROR_READING_ARTICLE">> \o nurl /\ npc' = "done"
                  ELSE IF o = "no_content"
                  THEN nresult' = <<"ERROR_NO_CONTENT">> /\ npc' = "done"
                  ELSE nresult' = nresult /\ npc' = "summarize"
    /\ nurl' = nurl
    /\ NewsFrame

\* Lines 177-190: summarize_text_with_gemini and the final text.
N_Summarize ==
    /\ npc = "summarize"
    /\ NCount("ai")
    /\ \E o \in {"raises", "error_text", "summary"} :
          nresult' = IF o = "raises" THEN <<"ERROR_READING_ARTICLE">> \o nurl
                     ELSE IF o = "error_text" THEN <<"TITLE", "ERROR_SUMMARY">>
                     ELSE <<"TITLE", "SUMMARY", "SOURCE">> \o nurl
    /\ npc' = "done"
    /\ nurl' = nurl
    /\ NewsFrame

NewsNext ==
    \/ N_Search
    \/ N_Branch
    \/ N_Article
    \/ N_Summarize

NewsIdle ==
    /\ npc = "idle" /\ nquery = <<>> /\ nsearch = [kind |-> "results", urls |-> <<>>]
    /\ nurl = NoUrl /\ ncount = NoNewsCalls /\ nresult = <<>>

-----------------------------------------------------------------------------
(* The AI gateway wrappers: services/news_summary.py                       *)
(* summarize_text_with_gemini, services/stock_chart.py chat_with_gemini    *)
(* and stock_chart+ans.py chat_with_gemini.                                *)

Gateways == {"summarize", "chat", "chat_legacy"}

\* Where the provider call raises, if it does: constructing the model,
\* generate_content, or reading response.text.
FailPoints == {None, "model", "generate_content", "text"}

\* response.prompt_feedback of a response that exists; the attribute may be
\* missing from the object.
MissingFeedback == [truthy |-> FALSE, reason |-> "MISSING", qualified |-> FALSE]

\* What a call meets: whether a key is configured, whether the cleaned
\* article text is empty, where the provider raises, the reply text and the
\* feedback of the response.
GatewayEnvs ==
    [key : BOOLEAN, empty : BOOLEAN, fails : FailPoints, text : ReplyTexts,
     feedback : Feedbacks \cup {MissingFeedback}]
NoEnv == [key |-> FALSE, empty |-> FALSE, fails |-> None, text |-> <<>>,
          feedback |-> NoFeedback]

Returns(v) == [kind |-> "returned", value |-> v]
Raises(e)  == [kind |-> "raised", value |-> e]
NotReturned == [kind |-> "running", value |-> None]

\* The fixed error string of each wrapper (news_summary.py line 88,
\* stock_chart.py line 110, stock_chart+ans.py line 43).
ErrorString(impl) ==
    IF impl = "summarize" THEN "ERROR_AI_SUMMARY_PROBLEM"
    ELSE IF impl = "chat" THEN "ERROR_TALKING_TO_AI"
    ELSE "GEMINI_API_ERROR"

GatewayInit ==
    /\ wpc = "guard" /\ wimpl \in Gateways /\ wenv \in GatewayEnvs
    /\ wbound = FALSE /\ wresult = NotReturned

GatewayFrame == UNCHANGED <<wimpl, wenv>>

\* The checks before the try block: news_summary.py lines 35-37 and 49-51,
\* stock_chart.py lines 102-103; stock_chart+ans.py has none.
W_Guard ==
    /\ wpc = "guard"
    /\ IF wimpl = "summarize" /\ ~wenv.key
       THEN wresult' = Returns("ERROR_SUMMARY_NOT_CONFIGURED") /\ wpc' = "done"
       ELSE IF wimpl = "summarize" /\ wenv.empty
       THEN wresult' = Returns("ERROR_EMPTY_CONTENT") /\ wpc' = "done"
       ELSE IF wimpl = "chat" /\ ~wenv.key
       THEN wresult' = Returns("GEMINI_NOT_CONFIGURED") /\ wpc' = "done"
       ELSE wresult' = wresult /\ wpc' = "model"
    /\ wbound' = wbound
    /\ GatewayFrame

\* model = genai.GenerativeModel('gemini-pro').
W_Model ==
    /\ wpc = "model"
    /\ wpc' = IF wenv.fails = "model" THEN "except" ELSE "generate"
    /\ UNCHANGED <<wbound, wresult>>
    /\ GatewayFrame

\* response = model.generate_content(prompt): the name response is bound
\* only when the call returns.
W_Generate ==
    /\ wpc = "generate"
    /\ IF wenv.fails = "generate_content"
       THEN wbound' = wbound /\ wpc' = "except"
       ELSE wbound' = TRUE /\ wpc' = "text"
    /\ wresult' = wresult
    /\ GatewayFrame

\* response.text.strip() and the return of the try block; an empty summary
\* has its own message in news_summary.py (lines 74-75).
W_Text ==
    /\ wpc = "text"
    /\ IF wenv.fails = "text"
       THEN wresult' = wresult /\ wpc' = "except"
       ELSE /\ wresult' = IF wimpl = "summarize" /\ strip(wenv.text) = <<>>
                          THEN Returns("ERROR_NO_SUMMARY")
                          ELSE Returns("TEXT")
            /\ wpc' = "done"
    /\ wbound' = wbound
    /\ GatewayFrame

\* news_summary.py lines 82-87: the handler reads the name response.  An
\* unbound name raises UnboundLocalError, which 'except AttributeError' does
\* not catch; a missing prompt_feedback raises AttributeError, which it does.
HandlerResult(bound, f) ==
    IF ~bound THEN Raises("UnboundLocalError")
    ELSE IF f = MissingFeedback THEN Returns(ErrorString("summarize"))
    ELSE IF BlockSignal(f) THEN Returns("CANNOT_SUMMARIZE_POLICY")
    ELSE Returns(ErrorString("summarize"))

\* except Exception as e: news_summary.py lines 77-88, stock_chart.py lines
\* 108-110, stock_chart+ans.py lines 42-43.
W_Except ==
    /\ wpc = "except"
    /\ wresult' = IF wimpl = "summarize" THEN HandlerResult(wbound, wenv.feedback)
                  ELSE Returns(ErrorString(wimpl))
    /\ wpc' = "done"
    /\ wbound' = wbound
    /\ GatewayFrame

GatewayNext ==
    \/ W_Guard
    \/ W_Model
    \/ W_Generate
    \/ W_Text
    \/ W_Except

GatewayIdle ==
    /\ wpc = "idle" /\ wimpl = None /\ wenv = NoEnv /\ wbound = FALSE
    /\ wresult = NotReturned

-----------------------------------------------------------------------------
(* Two chart generations running at the same time in one process, both of  *)
(* services/stock_chart.py generate_stock_chart_image (lines 267-293) or   *)
(* both of stock_chart+ans.py txt_to_img_url (lines 102-125).  A file on   *)
(* disk carries who created it and who wrote it last.                      *)

Invocations == {"a", "b"}

ChartCodes == {<<"2330">>, <<"99999">>}

\* Names tempfile can choose from; it creates the file exclusively, so it
\* never hands out the name of a file that exists.
TempNames == {"tmp1.png", "tmp2.png"}
PairNames == TempNames \cup {FileName(c) : c \in ChartCodes}

NoFile == [creator |-> None, writer |-> None]
Exists(disk, n) == disk[n] # NoFile

\* What an invocation did to a file, with the file's creator at that time.
Touch(op, f) == [op |-> op, creator |-> f.creator, writer |-> f.writer]

PairInit ==
    /\ qimpl \in ChartImpls
    /\ qcode \in [Invocations -> ChartCodes]
    /\ qpc = [i \in Invocations |-> "start"]
    /\ qfile = [i \in Invocations |-> None]
    /\ qdisk = [n \in PairNames |-> NoFile]
    /\ qlog = [i \in Invocations |-> {}]
    /\ qresult = [i \in Invocations |-> Running]

PairFrame == UNCHANGED <<qimpl, qcode>>

\* Line 269: NamedTemporaryFile(suffix=".png", delete=False) creates a new,
\* empty file under a name no existing file has.  Line 105 of the earlier
\* module only computes file_name = f'{stock_id}.png'.
Q_Name(i) ==
    /\ qpc[i] = "start"
    /\ IF qimpl = "generate_stock_chart_image"
       THEN \E n \in TempNames :
               /\ ~Exists(qdisk, n)
               /\ qfile' = [qfile EXCEPT ![i] = n]
               /\ qdisk' = [qdisk EXCEPT ![n] = [creator |-> i, writer |-> i]]
       ELSE /\ qfile' = [qfile EXCEPT ![i] = FileName(qcode[i])]
            /\ qdisk' = qdisk
    /\ qpc' = [qpc EXCEPT ![i] = "savefig"]
    /\ UNCHANGED <<qlog, qresult>>
    /\ PairFrame

\* plt.savefig(name) (line 270; line 114): the file of that name is created
\* when there is none and overwritten when there is one; or the call raises,
\* which ends the earlier function (line 123) and sends the later one to its
\* finally block.
Q_Savefig(i) ==
    /\ qpc[i] = "savefig"
    /\ \/ /\ qdisk' = [qdisk EXCEPT ![qfile[i]] =
                         [creator |-> IF Exists(qdisk, qfile[i]) THEN @.creator ELSE i,
                          writer |-> i]]
          /\ qlog' = [qlog EXCEPT ![i] = @ \cup {Touch("write", qdisk'[qfile[i]])}]
          /\ qpc' = [qpc EXCEPT ![i] = "upload"]
          /\ qresult' = qresult
       \/ /\ UNCHANGED <<qdisk, qlog>>
          /\ qresult' = [qresult EXCEPT ![i] = ChartNone]
          /\ qpc' = [qpc EXCEPT ![i] =
                       IF qimpl = "generate_stock_chart_image" THEN "finally" ELSE "done"]
    /\ qfile' = qfile
    /\ PairFrame

\* cloudinary.uploader.upload(path) (line 280; lines 93-99 called from line
\* 117): it reads the file of that name and answers with a URL, or raises,
\* as it does when there is no such file.  The later function returns in
\* both cases through its finally block; the earlier one removes the file
\* only after a URL came back.
Q_Upload(i) ==
    /\ qpc[i] = "upload"
    /\ \E accepted \in BOOLEAN :
         IF Exists(qdisk, qfile[i]) /\ accepted
         THEN /\ qlog' = [qlog EXCEPT ![i] = @ \cup {Touch("upload", qdisk[qfile[i]])}]
              /\ qresult' = [qresult EXCEPT ![i] = ChartUrl]
              /\ qpc' = [qpc EXCEPT ![i] = IF qimpl = "generate_stock_chart_image"
                                           THEN "finally" ELSE "remove"]
         ELSE /\ qlog' = qlog
              /\ qresult' = [qresult EXCEPT ![i] = ChartNone]
              /\ qpc' = [qpc EXCEPT ![i] = IF qimpl = "generate_stock_chart_image"
                                           THEN "finally" ELSE "done"]
    /\ UNCHANGED <<qfile, qdisk>>
    /\ PairFrame

\* The removal.  Lines 289-293: in the finally block, only when the file
\* exists.  Line 119: os.remove(file_name) raises FileNotFoundError when the
\* file is gone, and line 123 turns that into None.
Q_Remove(i) ==
    /\ qpc[i] \in {"finally", "remove"}
    /\ IF Exists(qdisk, qfile[i])
       THEN /\ qdisk' = [qdisk EXCEPT ![qfile[i]] = NoFile]
            /\ qlog' = [qlog EXCEPT ![i] = @ \cup {Touch("delete", qdisk[qfile[i]])}]
            /\ qresult' = qresult
       ELSE /\ UNCHANGED <<qdisk, qlog>>
            /\ qresult' = IF qpc[i] = "remove"
                          THEN [qresult EXCEPT ![i] = ChartNone] ELSE qresult
    /\ qpc' = [qpc EXCEPT ![i] = "done"]
    /\ qfile' = qfile
    /\ PairFrame

PairNext ==
    \/ \E i \in Invocations : Q_Name(i)
    \/ \E i \in Invocations : Q_Savefig(i)
    \/ \E i \in Invocations : Q_Upload(i)
    \/ \E i \in Invocations : Q_Remove(i)

PairIdle ==
    /\ qimpl = None /\ qcode = <<>> /\ qpc = <<>> /\ qfile = <<>> /\ qdisk = <<>>
    /\ qlog = <<>> /\ qresult = <<>>

-----------------------------------------------------------------------------
(* services/app.py: handle_text_message with a record kept of what each    *)
(* request was given and did.  The record is not program state: the steps  *)
(* below are the steps of the handler, each noting what it saw.            *)

NoLast == [text |-> <<>>, had |-> None, handled |-> FALSE]

\* The map as it can be when requests arrive: each user without an entry or
\* waiting for one of the three inputs.
Maps == [Users -> WaitingStates \cup {None}]

RecordInit ==
    /\ pending0 = user_next_action
    /\ hmsg = [h \in Handlers |-> <<>>]
    /\ hbranch = [h \in Handlers |-> None]
    /\ last = [u \in Users |-> NoLast]

\* Lines 107-118 for a verified request, whatever else is being handled.
H_Accept(h) ==
    /\ \E u \in Users, t \in Texts :
          /\ Dispatch(h, u, t, "valid")
          /\ hmsg' = [hmsg EXCEPT ![h] = t]
    /\ UNCHANGED <<pending0, hbranch, last>>

\* The same, for a request that arrives when no other is being handled.
H_AcceptAlone(h) ==
    /\ \A g \in Handlers : pc[g] = "idle"
    /\ H_Accept(h)

\* Line 119: the pop, noting the text and what the map held for the user.
H_Pop(h) ==
    /\ Pop(h)
    /\ last' = [last EXCEPT ![user_id[h]] =
                  [text |-> text[h], had |-> user_next_action[user_id[h]],
                   handled |-> TRUE]]
    /\ UNCHANGED <<pending0, hmsg, hbranch>>

\* Lines 123-178: the branch, noting which one was taken.
H_Branch(h) ==
    /\ \/ BranchPrice(h)
       \/ BranchChart(h)
       \/ BranchNews(h)
       \/ BranchMenu(h)
       \/ BranchChat(h)
    /\ hbranch' = [hbranch EXCEPT ![h] = BranchOf(current_action[h], user_message[h])]
    /\ UNCHANGED <<pending0, hmsg, last>>

\* Lines 181-201: the reply, or the generic reply of the except handler.
H_Reply(h) ==
    /\ Send(h) \/ Except(h)
    /\ UNCHANGED <<pending0, hmsg, hbranch, last>>

\* The request thread takes the next request.
H_Release(h) ==
    /\ Release(h)
    /\ hmsg' = [hmsg EXCEPT ![h] = <<>>]
    /\ hbranch' = [hbranch EXCEPT ![h] = None]
    /\ UNCHANGED <<pending0, last>>

\* Two requests at most, of any users, in any interleaving.
SameUserNext ==
    \/ \E h \in Handlers : H_Accept(h)
    \/ \E h \in Handlers : H_Pop(h)
    \/ \E h \in Handlers : H_Branch(h)
    \/ \E h \in Handlers : H_Reply(h)

\* Requests handled one after the other by the request thread t1.
SequentialNext ==
    \/ H_AcceptAlone("t1")
    \/ H_Pop("t1")
    \/ H_Branch("t1")
    \/ H_Reply("t1")
    \/ H_Release("t1")

RecordIdle ==
    /\ pending0 = <<>> /\ hmsg = <<>> /\ hbranch = <<>> /\ last = <<>>

\* The later components are not running.
LateIdle == GatewayIdle /\ PairIdle /\ RecordIdle

-----------------------------------------------------------------------------
(* Specification of services/app.py *)
PriceIdle ==
    /\ ppc = "idle" /\ stock_id = <<>> /\ upstream = None /\ exc = {}
    /\ http_requests = 0 /\ result = None

\* The functions modelled on their own are not running.
OtherIdle == ResolverIdle /\ ChartIdle /\ ChatIdle /\ NewsIdle /\ LateIdle

Init == BotInit /\ LegacyInit /\ PriceIdle /\ OtherIdle

Next ==
    \/ \E h \in Handlers : CallbackRejected(h)
    \/ \E h \in Handlers : CallbackAccepted(h)
    \/ \E h \in Handlers : Pop(h)
    \/ \E h \in Handlers : BranchPrice(h)
    \/ \E h \in Handlers : BranchChart(h)
    \/ \E h \in Handlers : BranchNews(h)
    \/ \E h \in Handlers : BranchMenu(h)
    \/ \E h \in Handlers : BranchChat(h)
    \/ \E h \in Handlers : Send(h)
    \/ \E h \in Handlers : Except(h)
    \/ \E h \in Handlers : Release(h)

BotNext == Next /\ UNCHANGED <<legacyVars, priceVars, otherVars>>

Spec == Init /\ [][BotNext]_vars

(* Specification of app.py *)
InitLegacy == BotInit /\ ~GEMINI_INITIALIZED /\ LegacyInit /\ PriceIdle /\ OtherIdle
SpecLegacy == InitLegacy /\ [][LegacyNext /\ UNCHANGED <<botVars, priceVars, otherVars>>]_vars

(* Specification of get_stock_price: one call for each code and each upstream *)
InitPrice == BotInit /\ ~GEMINI_INITIALIZED /\ LegacyInit /\ PriceInit /\ OtherIdle
SpecPrice == InitPrice /\ [][PriceNext /\ UNCHANGED <<botVars, legacyVars, otherVars>>]_vars

(* Specification of the identifier resolver: one call for each text *)
Quiet == BotInit /\ ~GEMINI_INITIALIZED /\ LegacyInit /\ PriceIdle /\ LateIdle
InitResolver == Quiet /\ ResolverInit /\ ChartIdle /\ ChatIdle /\ NewsIdle
SpecResolver == InitResolver /\ [][ResolverNext /\ UNCHANGED <<botVars, legacyVars, priceVars, chartVars, chatVars, newsVars, lateVars>>]_vars

(* Specification of chart generation: one call for each history and setting *)
InitChart == Quiet /\ ResolverIdle /\ ChartInit /\ ChatIdle /\ NewsIdle
SpecChart == InitChart /\ [][ChartNext /\ UNCHANGED <<botVars, legacyVars, priceVars, resolverVars, chatVars, newsVars, lateVars>>]_vars

(* Specification of the open-chat branch: one AI call for each outcome *)
InitChat == Quiet /\ ResolverIdle /\ ChartIdle /\ ChatInit /\ NewsIdle
SpecChat == InitChat /\ [][ChatNext /\ UNCHANGED <<botVars, legacyVars, priceVars, resolverVars, chartVars, newsVars, lateVars>>]_vars

(* Specification of the news summary: one call for each keyword and search *)
InitNews == Quiet /\ ResolverIdle /\ ChartIdle /\ ChatIdle /\ NewsInit
SpecNews == InitNews /\ [][NewsNext /\ UNCHANGED <<botVars, legacyVars, priceVars, resolverVars, chartVars, chatVars, lateVars>>]_vars

(* Specification of the AI gateway wrappers: one call for each wrapper and each
   behaviour of the provider *)
Calm == BotInit /\ ~GEMINI_INITIALIZED /\ LegacyInit /\ PriceIdle
        /\ ResolverIdle /\ ChartIdle /\ ChatIdle /\ NewsIdle
InitGateway == Calm /\ GatewayInit /\ PairIdle /\ RecordIdle
SpecGateway == InitGateway /\ [][GatewayNext /\ UNCHANGED <<botVars, legacyVars, priceVars, resolverVars, chartVars, chatVars, newsVars, pairVars, recordVars>>]_vars

(* Specification of two chart generations at the same time *)
InitPair == Calm /\ GatewayIdle /\ PairInit /\ RecordIdle
SpecPair == InitPair /\ [][PairNext /\ UNCHANGED <<botVars, legacyVars, priceVars, resolverVars, chartVars, chatVars, newsVars, gatewayVars, recordVars>>]_vars

(* Specification of services/app.py with two requests in any interleaving,
   also of one user, from any state of the map, in a process that has its AI
   key *)
Elsewhere == LegacyInit /\ PriceIdle /\ ResolverIdle /\ ChartIdle /\ ChatIdle /\ NewsIdle
             /\ GatewayIdle /\ PairIdle
elsewhereVars == <<legacyVars, priceVars, resolverVars, chartVars, chatVars, newsVars,
                   gatewayVars, pairVars>>
InitSameUser ==
    /\ \E m \in Maps : BotInitWith(m)
    /\ GEMINI_INITIALIZED
    /\ RecordInit /\ Elsewhere
SpecSameUser == InitSameUser /\ [][SameUserNext /\ UNCHANGED elsewhereVars]_vars

(* Specification of services/app.py with requests handled one after the other *)
InitSequential == BotInit /\ RecordInit /\ Elsewhere
SpecSequential == InitSequential /\ [][SequentialNext /\ UNCHANGED elsewhereVars]_vars

-----------------------------------------------------------------------------
(* Properties of services/app.py, checked under Spec *)

ServiceCalls(h) == calls[h].price + calls[h].chart + calls[h].news
AfterPop(h)     == pc[h] \in {"branch", "send", "except"}
AfterBranch(h)  == pc[h] \in {"send", "except"}

\* C1: the pending action is popped before any branch runs: once a request of
\* a user who was in a waiting state has passed the pop, and after it has been
\* answered (whether the service or the reply send raised or not), the user has
\* no pending action, so no later message can obtain it again.
C1_PendingActionConsumedOnce ==
    \A h \in Handlers :
        /\ (AfterPop(h) /\ current_action[h] \in WaitingStates)
               => user_next_action[user_id[h]] = None
        /\ (pc[h] = "responded" /\ ServiceCalls(h) > 0)
               => user_next_action[user_id[h]] = None

\* Reached: a chart request whose reply send and generic error reply both failed.
C1_Witness ==
    \E h \in Handlers :
        /\ pc[h] = "responded" /\ calls[h].chart = 1 /\ calls[h].reply = 2
        /\ sent[h] = <<>> /\ user_next_action[user_id[h]] = None

\* The service a waiting state stands for.
ServiceOfState(a) ==
    IF a = STATE_WAITING_STOCK_ID_FOR_PRICE THEN "price"
    ELSE IF a = STATE_WAITING_STOCK_ID_FOR_CHART THEN "chart"
    ELSE "news"

OnlyCalled(h, k) ==
    /\ calls[h][k] = 1
    /\ \A j \in {"price", "chart", "news", "ai"} \ {k} : calls[h][j] = 0

Dispatched(h, input) ==
    /\ OnlyCalled(h, ServiceOfState(current_action[h]))
    /\ svc_arg[h] = <<input>>
    /\ user_next_action[user_id[h]] = None
    /\ \A i \in 1..Len(reply_objects[h]) :
           reply_objects[h][i] \notin {PromptPrice, PromptChart, PromptNews}

\* C2 as stated: with a pending action, the next message goes to that action's
\* service with the message text itself as input.
C2_Original ==
    \A h \in Handlers :
        (AfterBranch(h) /\ current_action[h] \in WaitingStates) => Dispatched(h, text[h])

\* C2 amended: with a pending action, the next message goes to that action's
\* service (and to no other service nor the AI chat) with the message text
\* stripped of surrounding whitespace as input, also when the text is a menu
\* text; no menu command is interpreted and no new pending action is set.
C2_DispatchedWithStrippedText ==
    \A h \in Handlers :
        (AfterBranch(h) /\ current_action[h] \in WaitingStates)
            => Dispatched(h, strip(text[h]))

\* Reached: a user waiting for a price sends the chart menu text with spaces around.
C2_Witness ==
    \E h \in Handlers :
        /\ pc[h] = "send" /\ current_action[h] = STATE_WAITING_STOCK_ID_FOR_PRICE
        /\ text[h] = <<SP>> \o MenuChart \o <<SP>>
        /\ svc_arg[h] = <<MenuChart>> /\ reply_objects[h] = <<PriceInfo(MenuChart)>>

\* C3: for a user with no pending action each menu text sets exactly its own
\* waiting state, the reply is that menu's prompt and no service is called.
C3_MenuSetsWaitingState ==
    \A h \in Handlers :
        (AfterBranch(h) /\ current_action[h] = None /\ text[h] \in MenuTexts) =>
            /\ text[h] = MenuPrice =>
                   /\ user_next_action[user_id[h]] = STATE_WAITING_STOCK_ID_FOR_PRICE
                   /\ reply_objects[h] = <<PromptPrice>>
            /\ text[h] = MenuChart =>
                   /\ user_next_action[user_id[h]] = STATE_WAITING_STOCK_ID_FOR_CHART
                   /\ reply_objects[h] = <<PromptChart>>
            /\ text[h] = MenuNews =>
                   /\ user_next_action[user_id[h]] = STATE_WAITING_KEYWORD_FOR_NEWS
                   /\ reply_objects[h] = <<PromptNews>>
            /\ \A k \in {"price", "chart", "news", "ai"} : calls[h][k] = 0

\* Reached: the news menu text of an idle user has been handled up to the send.
C3_Witness ==
    \E h \in Handlers :
        /\ pc[h] = "send" /\ current_action[h] = None /\ text[h] = MenuNews
        /\ user_next_action[user_id[h]] = STATE_WAITING_KEYWORD_FOR_NEWS

ChatReplies == {ChatText, ChatBlocked, ChatEmpty, ChatError}

AnsweredAsChat(h) ==
    /\ user_next_action[user_id[h]] = None
    /\ ServiceCalls(h) = 0
    /\ GEMINI_INITIALIZED =>
           /\ calls[h].ai = 1
           /\ \E m \in ChatReplies : reply_objects[h] = <<m>>
    /\ ~GEMINI_INITIALIZED =>
           /\ calls[h].ai = 0
           /\ reply_objects[h] = <<ChatNotReady>>

\* C4 as stated: for a user with no pending action every text that is not one
\* of the three menu texts is answered as open chat and leaves the user Idle.
C4_Original ==
    \A h \in Handlers :
        (AfterBranch(h) /\ current_action[h] = None /\ text[h] \notin MenuTexts)
            => AnsweredAsChat(h)

\* C4 amended: for a user with no pending action every text that, stripped of
\* surrounding whitespace, is not one of the three menu texts is answered as
\* open chat: with the AI initialised the AI is called once and the reply is
\* the model's text or one of the fixed substitutes; otherwise the reply is the
\* fixed not-ready text and the AI is not called.  No service is called and the
\* user keeps having no pending action.
C4_OtherTextIsOpenChat ==
    \A h \in Handlers :
        (AfterBranch(h) /\ current_action[h] = None /\ strip(text[h]) \notin MenuTexts)
            => AnsweredAsChat(h)

\* Reached: a free text answered with the not-ready text, the AI not initialised.
C4_Witness ==
    \E h \in Handlers :
        /\ pc[h] = "send" /\ current_action[h] = None /\ text[h] = FreeText
        /\ ~GEMINI_INITIALIZED /\ reply_objects[h] = <<ChatNotReady>>

\* C5: a step of the request thread that serves user u leaves the pending
\* action of every other user as it was, whatever the other thread is doing.
C5_OtherUsersUnchanged ==
    [][\A h \in Handlers :
          pc'[h] # pc[h] =>
              \A v \in Users :
                  (v # user_id[h] /\ v # user_id'[h])
                      => user_next_action'[v] = user_next_action[v]]_vars

\* Reached: a thread has just popped its user's entry while the other thread
\* is serving another user whose entry is set.
C5_Witness ==
    \E h, g \in Handlers :
        /\ h # g /\ pc[h] = "branch" /\ current_action[h] \in WaitingStates
        /\ AfterBranch(g) /\ user_id[g] # user_id[h]
        /\ user_next_action[user_id[g]] \in WaitingStates

C8_Original ==
    \A h \in Handlers : \A k \in DOMAIN calls[h] : calls[h][k] <= 1

\* C8 amended: each service and AI call is attempted at most once; the reply
\* call is attempted at most twice, the second time only from the exception
\* handler with the generic error text, and a failure of that second call is
\* caught with no further attempt.
C8_NoRetryButOneErrorReply ==
    \A h \in Handlers :
        /\ \A k \in {"price", "chart", "news", "ai"} : calls[h][k] <= 1
        /\ calls[h].reply <= 2
        /\ calls[h].reply = 2 =>
               /\ pc[h] = "responded"
               /\ sent[h] \in {<<>>, <<(<<GenericError>>)>>}

\* Reached: the reply send failed and the generic error reply went out.
C8_Witness ==
    \E h \in Handlers :
        /\ calls[h].reply = 2 /\ calls[h].ai = 1 /\ sent[h] = <<(<<GenericError>>)>>

-----------------------------------------------------------------------------
(* The webhook acknowledgement, both bots *)

\* C7: every request whose signature verifies is answered "OK", whatever
\* happened in the message handler (services/app.py and app.py).
C7_VerifiedRequestAnsweredOK ==
    /\ \A h \in Handlers :
           (signature[h] = "valid" /\ pc[h] = "responded") => response[h] = "OK"
    /\ (lsignature = "valid" /\ lpc = "responded") => lresponse = "OK"

-----------------------------------------------------------------------------
(* Properties of get_stock_price, checked under SpecPrice *)

PriceMessages == {"QUOTE", "NOT_FOUND", "DATA_INCOMPLETE", "HTTP_ERROR", "CONNECTION_FAILED",
                  "TIMEOUT", "UNKNOWN_REQUEST_PROBLEM", "CANNOT_PARSE", "UNEXPECTED_ERROR"}

\* C9: get_stock_price is total: whatever the code and the upstream do, it
\* returns one of its messages, no exception escapes, and it has issued
\* exactly one HTTP request.
C9_GetStockPriceTotal ==
    /\ http_requests <= 1
    /\ ppc = "done" =>
           /\ ~result.escaped
           /\ result.msg \in PriceMessages
           /\ http_requests = 1

\* Reached: a null field raised TypeError past the inner try and the call
\* still returned a message.
C9_Witness ==
    /\ ppc = "done" /\ upstream.body = "object" /\ upstream.elem["z"] = Null
    /\ result.msg = "UNEXPECTED_ERROR"

\* The failure category of an upstream outcome.
Category(u) ==
    IF u.kind = "raises"
    THEN IF "Timeout" \in u.exc THEN "timeout"
         ELSE IF "ConnectionError" \in u.exc THEN "connection"
         ELSE "other"
    ELSE IF u.status >= 400 THEN "http"
    ELSE IF u.body \in {"not_json", "not_json_old_requests"} THEN "malformed_json"
    ELSE "none"

\* C10: timeout, connection error, HTTP error and malformed JSON each yield
\* their own message, a connect-timeout and the HTTP library's JSON decode
\* error included.
C10_EachCategoryOwnMessage ==
    ppc = "done" =>
        /\ Category(upstream) = "timeout" => result.msg = "TIMEOUT"
        /\ Category(upstream) = "connection" => result.msg = "CONNECTION_FAILED"
        /\ Category(upstream) = "http" => result.msg = "HTTP_ERROR"
        /\ Category(upstream) = "malformed_json" => result.msg = "CANNOT_PARSE"

\* The response was a success whose body is a JSON object.
PriceSuccess == ppc = "done" /\ upstream.kind = "response" /\ upstream.status < 400

\* The first element of msgArray is an object holding all six keys.
AllSixKeys == upstream.body = "object" /\ \A k \in Keys : upstream.elem[k] # Absent

\* C11: whenever the first msgArray element contains all six keys, the
\* result is exactly six lines in the order name, instant, open, high, low,
\* previous close; a price field is shown with exactly 2 decimals when its
\* value parses as a number, and as "-" when it is the placeholder or does
\* not parse (a text that is no number, a null).
C11_SixLinesWhenAllKeys ==
    (PriceSuccess /\ AllSixKeys) =>
        /\ result.msg = "QUOTE"
        /\ Len(result.lines) = 6
        /\ result.lines[1] = upstream.elem["n"]
        /\ \A i \in 1..Len(PriceKeys) :
               LET v == upstream.elem[PriceKeys[i]]
               IN /\ v.kind = "num" => result.lines[i + 1].kind = "fixed2"
                  /\ v.kind \in {"dash", "garbage", "null"} => result.lines[i + 1] = ShownDash

\* C12: a successful response whose msgArray is empty or absent yields the
\* not-found message naming the code, and a first element lacking one of the
\* six keys yields the data-incomplete message naming the code; in both cases
\* no price line is rendered and nothing is raised.
C12_NotFoundAndIncomplete ==
    PriceSuccess =>
        /\ upstream.body \in {"no_msgArray", "empty_msgArray", "null_msgArray"} =>
               /\ result.msg = "NOT_FOUND" /\ result.code = stock_id
               /\ result.lines = <<>> /\ ~result.escaped /\ exc = {}
        /\ (upstream.body = "object" /\ \E k \in Keys : upstream.elem[k] = Absent) =>
               /\ result.msg = "DATA_INCOMPLETE" /\ result.code = stock_id
               /\ result.lines = <<>> /\ ~result.escaped /\ exc = {}

\* Reached: the element lacks the name key only, all its prices are numbers,
\* and the call returned the data-incomplete message for its code.
C12_Witness ==
    /\ PriceSuccess /\ upstream.body = "object"
    /\ upstream.elem["n"] = Absent
    /\ \A i \in 1..Len(PriceKeys) : upstream.elem[PriceKeys[i]].kind = "num"
    /\ result.msg = "DATA_INCOMPLETE" /\ result.code = stock_id

-----------------------------------------------------------------------------
(* Properties of the identifier resolver, checked under SpecResolver *)

\* The digit runs of a text that are 4 to 6 digits long, from left to right.
RECURSIVE RunLen(_, _)
RunLen(s, i) == IF i <= Len(s) /\ s[i] \in Digits THEN 1 + RunLen(s, i + 1) ELSE 0

RECURSIVE CodeRunsFrom(_, _)
CodeRunsFrom(s, i) ==
    IF i > Len(s) THEN <<>>
    ELSE LET n == RunLen(s, i)
         IN IF n = 0 THEN CodeRunsFrom(s, i + 1)
            ELSE IF n \in MinDigits..MaxDigits
            THEN <<SubSeq(s, i, i + n - 1)>> \o CodeRunsFrom(s, i + n)
            ELSE CodeRunsFrom(s, i + n)
CodeRuns(s) == CodeRunsFrom(s, 1)

\* No digit run of the text is longer than 6 digits.
NoLongRun(s) == \A i \in 1..Len(s) : RunLen(s, i) <= MaxDigits

\* The distinct elements of a list in first-seen order.
RECURSIVE FirstSeen(_)
FirstSeen(q) ==
    IF q = <<>> THEN <<>>
    ELSE LET front == FirstSeen(SubSeq(q, 1, Len(q) - 1))
         IN IF q[Len(q)] \in Range(front) THEN front ELSE Append(front, q[Len(q)])

\* C13: for every input text that contains a run of 4 to 6 contiguous
\* digits, also next to Chinese characters, the result is the list of the
\* distinct codes in first-seen order and the AI model is never invoked.
C13_DistinctCodesFirstSeenNoAI ==
    (rpc = "done" /\ CodeRuns(rtext) # <<>> /\ NoLongRun(rtext)) =>
        /\ rresult = ReturnList(FirstSeen(CodeRuns(rtext)))
        /\ rai_calls = 0

\* The reply of the model holds no run of 4 to 6 digits.
NoCodeInReply == CodeRuns(rreply.reply) = <<>>

\* The reply of the model is "None", whatever its case and the whitespace
\* around it.
RepliedNone == upper(strip(rreply.reply)) = <<"N", "O", "N", "E">>

\* What the claim says of the outcome of the AI path: None when the call
\* raised, replied "None" or replied without a code; nothing is raised.
AIPathOutcome ==
    /\ (rpc = "done" /\ rai_calls > 0 /\ (rreply.raises \/ RepliedNone \/ NoCodeInReply)) =>
           rresult = ReturnNone
    /\ rresult.kind \in {"pending", "none", "list"}
    /\ rai_calls <= 1

-----------------------------------------------------------------------------
(* Properties of chart generation, checked under SpecChart *)

\* The operation is over: it returned, or an exception left it.
ChartOver == gpc = "done"

\* C15: whenever the operation returns, with a URL or with absent, and for
\* every failure point (save fails, credentials incomplete, upload fails or
\* raises), the local image file it created no longer exists on disk (both
\* generate_stock_chart_image and txt_to_img_url).
C15_CreatedFileRemoved ==
    (ChartOver /\ gtemp # None) => gtemp \notin gdisk

\* One of the three image-hosting settings is not configured.
SomeCredentialMissing == Credentials \ gcreds # {}

\* C16 as stated: when any of the three image-hosting credentials is
\* missing, generate_stock_chart_image returns absent before any chart is
\* rendered, before any temporary file is created and before any upload is
\* attempted.
C16_Original ==
    (Services /\ SomeCredentialMissing) =>
        /\ gcount.render = 0 /\ gcount.create = 0 /\ gcount.upload = 0
        /\ ChartOver => gresult = ChartNone

\* C16 amended: when any of the three image-hosting credentials is missing,
\* generate_stock_chart_image never attempts an upload and never returns a
\* URL; the credentials are checked only after the chart was rendered and
\* the temporary file was created and saved, the operation then returns
\* absent, and the temporary file is removed before it returns.
C16_NoUploadWithoutCredentials ==
    (Services /\ SomeCredentialMissing) =>
        /\ gcount.upload = 0 /\ gpc # "upload" /\ gresult # ChartUrl
        /\ gcount.check > 0 =>
               /\ gcount.render = 1 /\ gcount.create = 1 /\ gtemp = TempName
               /\ gresult = ChartNone
               /\ gpc \in {"finally", "done"}
               /\ ChartOver => gdisk = {}

\* Reached: the cloud name is the only setting missing, the chart was
\* rendered and saved, the check returned absent and the file is gone.
C16_Witness ==
    /\ Services /\ ChartOver
    /\ gcreds = Credentials \ {"CLOUDINARY_CLOUD_NAME"}
    /\ gcount.render = 1 /\ gcount.create = 1 /\ gcount.check = 1 /\ gcount.upload = 0
    /\ gresult = ChartNone /\ gdisk = {}

\* C17: generate_stock_chart_image is total: an exception raised at any step
\* (history fetch, name lookup, style selection and rendering, saving,
\* upload) is converted to an absent result and never reaches the caller.
C17_ChartNeverRaises ==
    (Services /\ ChartOver) => gresult \in {ChartUrl, ChartNone}

\* The points of the history that are within the window and have a numeric
\* close.
Usable(p) == p.in_window /\ p.numeric
UsablePoints == Len(SelectSeq(ghist.points, Usable))

\* C18: generate_stock_chart_image returns absent, with no render and no
\* upload, whenever the history has fewer than 2 usable closing-price points
\* after windowing and after dropping non-numeric closes.
C18_AbsentBelowTwoPoints ==
    (Services /\ UsablePoints < 2) =>
        /\ gcount.render = 0 /\ gcount.upload = 0
        /\ ChartOver => gresult = ChartNone

-----------------------------------------------------------------------------
(* Properties of the open-chat reply selection, checked under SpecChat *)

\* The AI call completed: generate_content returned a response.
Completed == kpc = "done" /\ koutcome.raises # "generate_content"

\* The completion was blocked: its feedback carries a block reason other
\* than the unspecified one.
Blocked == koutcome.feedback.truthy /\ koutcome.feedback.reason # "BLOCK_REASON_UNSPECIFIED"

\* The text of the completion could be read and is the empty text.
EmptyReply == koutcome.raises = None /\ koutcome.text = <<>>

\* C19: reply selection distinguishes exactly three outcomes of a completed
\* AI call: a non-empty reply is returned as is; an empty reply with a
\* content-safety block signal yields the cannot-reply apology; an empty
\* reply with no block signal (no feedback, or a feedback whose block reason
\* is unspecified) yields the other fixed message; and a blocked completion
\* is never reported with the provider-error apology.
C19_ThreeOutcomes ==
    Completed =>
        /\ (koutcome.raises = None /\ koutcome.text # <<>>) =>
               kreply = ChatText /\ kgemini = koutcome.text
        /\ (EmptyReply /\ Blocked) => kreply = ChatBlocked
        /\ (EmptyReply /\ ~Blocked) => kreply = ChatEmpty
        /\ Blocked => kreply # ChatError

-----------------------------------------------------------------------------
(* Properties of the news summary, checked under SpecNews *)

\* The text q occurs in the text s.
Occurs(q, s) == \E i \in 1..Len(s) : i + Len(q) - 1 <= Len(s) /\ SubSeq(s, i, i + Len(q) - 1) = q

\* The search step returned zero results.
ZeroResults == nsearch.kind = "results" /\ nsearch.urls = <<>>

\* C20: when the search step returns zero results, the returned message
\* contains the user's original keyword text and indicates that no news was
\* found, and no article download, liveness probe or AI call is made.
C20_ZeroResultsNamesKeyword ==
    (npc = "done" /\ ZeroResults) =>
        /\ Occurs(nquery, nresult)
        /\ Head(nresult) = "SORRY_NO_NEWS_FOR"
        /\ ncount.download = 0 /\ ncount.probe = 0 /\ ncount.ai = 0

-----------------------------------------------------------------------------
(* Properties of the AI gateway wrappers, checked under SpecGateway *)

\* The call got as far as the provider and the provider raised.
ProviderRaised ==
    /\ wpc = "done"
    /\ wenv.fails # None
    /\ wimpl = "summarize" => (wenv.key /\ ~wenv.empty)
    /\ wimpl = "chat" => wenv.key

\* C21: when the provider call raises at any point (constructing the model,
\* generate_content, reading the reply text), the wrapper returns its fixed
\* error string and raises nothing to its caller, also when the failure comes
\* before any response object exists.
C21_ProviderFailureReturnsErrorString ==
    ProviderRaised => wresult = Returns(ErrorString(wimpl))

-----------------------------------------------------------------------------
(* Properties of two chart generations at the same time, checked under SpecPair *)

\* What invocation i did to a file that it did not create or that the other
\* invocation wrote last.
ForeignTouches(i) == {t \in qlog[i] : t.creator # i \/ t.writer # i}

\* C22: for any two chart generations at the same time, also for the same
\* stock code, neither writes, uploads or deletes the file the other created,
\* and neither uploads a file the other has overwritten.
C22_FilesOwnedByOneRequest ==
    \A i \in Invocations : ForeignTouches(i) = {}

-----------------------------------------------------------------------------
(* Properties of two requests in any interleaving, checked under SpecSameUser *)

MenuBranches == {"menu_price", "menu_chart", "menu_news"}

\* Both request threads handle a message of user u and both have taken their
\* branch.
BothHandled(u) == \A h \in Handlers : user_id[h] = u /\ hbranch[h] # None

ObtainedAndRan(h, a) ==
    /\ hbranch[h] = ServiceOfState(a)
    /\ OnlyCalled(h, ServiceOfState(a))

SawNoPending(h) ==
    /\ hbranch[h] \in MenuBranches \cup {"chat"}
    /\ ServiceCalls(h) = 0

\* C23: when two messages of one user are handled at the same time and the
\* user had a pending action before both, exactly one of the two handlers gets
\* that action from the pop and runs its service, once; the other sees no
\* pending action and runs no service.
C23_ExactlyOneObtainsPending ==
    \A u \in Users :
        (pending0[u] # None /\ BothHandled(u)) =>
            \E h \in Handlers :
                /\ ObtainedAndRan(h, pending0[u])
                /\ \A g \in Handlers \ {h} : SawNoPending(g)

\* Both requests are in flight past their branch, one with the chart service
\* run for the pending action, the other having taken a menu command.
C23_Witness ==
    /\ pending0[1] = STATE_WAITING_STOCK_ID_FOR_CHART
    /\ BothHandled(1)
    /\ pc["t1"] = "send" /\ pc["t2"] = "send"
    /\ hbranch["t1"] = "menu_price" /\ hbranch["t2"] = "chart"
    /\ calls["t2"].chart = 1

\* The pending action a branch leaves behind for the user.
LeftPending(b) == IF b \in MenuBranches THEN MenuState(b) ELSE None

\* The branches taken and the final pending action of user u are those of
\* handling the message of thread f and then the message of thread s.
AsIfInOrder(u, f, s) ==
    LET b1 == BranchOf(pending0[u], strip(hmsg[f]))
        b2 == BranchOf(LeftPending(b1), strip(hmsg[s]))
    IN /\ hbranch[f] = b1
       /\ hbranch[s] = b2
       /\ user_next_action[u] = LeftPending(b2)

\* C24: for any two messages of one user handled at the same time, the branch
\* each message takes and the user's final pending action are those of
\* handling the two messages one after the other in some order.
C24_SerializablePerUser ==
    \A u \in Users :
        BothHandled(u) => (AsIfInOrder(u, "t1", "t2") \/ AsIfInOrder(u, "t2", "t1"))

-----------------------------------------------------------------------------
(* Properties of the pending-action map, checked under SpecSequential *)

\* No message is being handled.
Quiescent == \A h \in Handlers : pc[h] \in {"idle", "responded"}

HasEntry(u) == user_next_action[u] # None

ValuesAreWaitingStates ==
    \A u \in Users : HasEntry(u) => user_next_action[u] \in WaitingStates

\* C25 as stated: every value of the map is one of the three waiting
\* constants, and between messages a user has an entry exactly when the text of
\* the user's last handled message was one of the three menu texts and the
\* user had no pending action then.
C25_Original ==
    /\ ValuesAreWaitingStates
    /\ Quiescent =>
          \A u \in Users :
              HasEntry(u) <=>
                  (last[u].handled /\ last[u].text \in MenuTexts /\ last[u].had = None)

\* C25: every value of the map is one of the three waiting constants, and
\* between messages a user has an entry exactly when the text of the user's
\* last handled message, stripped of surrounding whitespace, was one of the
\* three menu texts and the user had no pending action then; after any other
\* handled message the user has no entry.
C25_EntryIffLastWasMenuCommand ==
    /\ ValuesAreWaitingStates
    /\ Quiescent =>
          \A u \in Users :
              HasEntry(u) <=>
                  (last[u].handled /\ strip(last[u].text) \in MenuTexts
                   /\ last[u].had = None)

\* User 1 has an entry after a menu text sent with whitespace around it; user
\* 2 has none after a menu text sent while a pending action was waiting.
C25_Witness ==
    /\ Quiescent
    /\ last[1].handled /\ last[1].text = <<SP>> \o MenuChart \o <<SP>> /\ last[1].had = None
    /\ user_next_action[1] = STATE_WAITING_STOCK_ID_FOR_CHART
    /\ last[2].handled /\ last[2].text = MenuNews /\ last[2].had = STATE_WAITING_STOCK_ID_FOR_PRICE
    /\ user_next_action[2] = None

====
